---- MODULE Spec2Model ----
(***************************************************************************)
(* Model of the mail <-> issue-tracker helpdesk synchronizer               *)
(* (scripts/email_to_github.py, scripts/github_to_email.py,                *)
(* scripts/utils.py, scripts/email_helper.py, scripts/github_helper.py).   *)
(*                                                                         *)
(* Text is a sequence of atoms.  An atom is an indivisible piece of text   *)
(* ("<", "!--", " ", "\n", "thread_id:", a word ...).  Every literal the   *)
(* code searches for or emits is written as the sequence of its atoms, so  *)
(* substring tests, regular-expression searches, str.replace and           *)
(* json.dumps / json.loads are computed on atoms the way the code          *)
(* computes them on characters.                                            *)
(***************************************************************************)
EXTENDS Integers, Sequences, FiniteSets, TLC

(***************************************************************************)
(* Text helpers                                                            *)
(***************************************************************************)

\* Optional values: None is Python's None / a missing dict key.
None == <<>>
Some(x) == <<x>>
IsSome(o) == o # None
Get(o) == o[1]

NL == "\n"
SP == " "
QUOTE == "\""

\* What Python's \s and str.strip() treat as whitespace.
IsWs(a) == a \in {SP, NL}

\* p occurs in s at index i.
StartsAt(s, i, p) ==
    /\ i >= 1
    /\ i + Len(p) - 1 <= Len(s)
    /\ \A k \in 1..Len(p) : s[i + k - 1] = p[k]

\* Python's `p in s`.
Contains(s, p) == \E i \in 1..(Len(s) - Len(p) + 1) : StartsAt(s, i, p)

\* Number of (possibly overlapping) occurrences of p in s.
Occurrences(s, p) == Cardinality({i \in 1..Len(s) : StartsAt(s, i, p)})

Min(S) == CHOOSE x \in S : \A y \in S : x <= y
Max(S) == CHOOSE x \in S : \A y \in S : x >= y

\* First index >= i of s that holds no whitespace (Len(s)+1 when none).
RECURSIVE WsEnd(_, _)
WsEnd(s, i) == IF i > Len(s) \/ ~IsWs(s[i]) THEN i ELSE WsEnd(s, i + 1)

\* First index >= i of s that holds a newline (Len(s)+1 when none): where a
\* `.+` that started at i stops.
RECURSIVE LineEnd(_, _)
LineEnd(s, i) == IF i > Len(s) \/ s[i] = NL THEN i ELSE LineEnd(s, i + 1)

\* str.strip()
Strip(s) ==
    LET keep == {k \in 1..Len(s) : ~IsWs(s[k])}
    IN  IF keep = {} THEN <<>> ELSE SubSeq(s, Min(keep), Max(keep))

\* str.replace(old, new): every non-overlapping occurrence, left to right.
RECURSIVE ReplaceFrom(_, _, _, _)
ReplaceFrom(s, i, old, new) ==
    IF i > Len(s) THEN <<>>
    ELSE IF Len(old) > 0 /\ StartsAt(s, i, old)
         THEN new \o ReplaceFrom(s, i + Len(old), old, new)
         ELSE <<s[i]>> \o ReplaceFrom(s, i + 1, old, new)

Replace(s, old, new) == ReplaceFrom(s, 1, old, new)

\* "sep".join(parts)
RECURSIVE Join(_, _)
Join(parts, sep) ==
    IF Len(parts) = 0 THEN <<>>
    ELSE IF Len(parts) = 1 THEN parts[1]
    ELSE parts[1] \o sep \o Join(Tail(parts), sep)

\* Is x an element of the sequence s (Python's `x in list`).
InSeq(x, s) == \E k \in 1..Len(s) : s[k] = x

(***************************************************************************)
(* utils.py: the echo marker                                               *)
(***************************************************************************)

\* "<!-- source:email -->"
create_email_marker == <<"<", "!--", SP, "source:email", SP, "--", ">">>

has_email_marker_NoCheck(text) == FALSE

has_email_marker(text) == Contains(text, create_email_marker)

(***************************************************************************)
(* utils.py: sanitize_email_body                                           *)
(***************************************************************************)

EscapeAtom(a) == IF a = "<" THEN "&lt;" ELSE IF a = ">" THEN "&gt;" ELSE a

\* body.replace('<','&lt;').replace('>','&gt;'); the 50000-character cut
\* never applies to the short texts of this model.
sanitize_email_body(body) == [k \in 1..Len(body) |-> EscapeAtom(body[k])]

(***************************************************************************)
(* utils.py: the metadata codec                                            *)
(***************************************************************************)

\* "<!-- HELPDESK_METADATA" and "-->"
MetaOpen == <<"<", "!--", SP, "HELPDESK_METADATA">>
MetaClose == <<"--", ">">>

\* json.dumps of one string: quote, backslash and newline are escaped.
JsonEscAtom(a) ==
    IF a = QUOTE THEN "\\\"" ELSE IF a = "\\" THEN "\\\\"
    ELSE IF a = NL THEN "\\n" ELSE a

JsonUnescAtom(a) ==
    IF a = "\\\"" THEN QUOTE ELSE IF a = "\\\\" THEN "\\"
    ELSE IF a = "\\n" THEN NL ELSE a

JsonString(s) == <<QUOTE>> \o [k \in 1..Len(s) |-> JsonEscAtom(s[k])] \o <<QUOTE>>

\* json.dumps(list of strings): ["a", "b"]
JsonDumps(ids) ==
    <<"[">> \o Join([k \in 1..Len(ids) |-> JsonString(ids[k])], <<",", SP>>)
            \o <<"]">>

\* json.loads of g, read as an array of strings.  JsonErr stands for
\* json.JSONDecodeError.  The parser is at index i of g, after the opening
\* bracket; `need` says whether a string must come next (after a comma).
JsonErr == "JSONDecodeError"

RECURSIVE JsonItems(_, _, _, _)
JsonItems(g, i, acc, need) ==
    LET j == WsEnd(g, i)
    IN  IF j > Len(g) THEN JsonErr
        ELSE IF g[j] = "]"
             THEN IF need \/ j # Len(g) THEN JsonErr ELSE acc
        ELSE IF g[j] # QUOTE THEN JsonErr
        ELSE LET closers == {k \in (j + 1)..Len(g) : g[k] = QUOTE}
             IN  IF closers = {} THEN JsonErr
                 ELSE LET c == Min(closers)
                          raw == SubSeq(g, j + 1, c - 1)
                          n == WsEnd(g, c + 1)
                      IN  IF \E k \in 1..Len(raw) : raw[k] \in {NL, "\\"}
                          THEN JsonErr
                          ELSE IF n > Len(g) THEN JsonErr
                          ELSE IF g[n] = ","
                               THEN JsonItems(g, n + 1,
                                       Append(acc, [k \in 1..Len(raw) |-> JsonUnescAtom(raw[k])]), TRUE)
                          ELSE IF g[n] = "]" /\ n = Len(g)
                               THEN Append(acc, [k \in 1..Len(raw) |-> JsonUnescAtom(raw[k])])
                          ELSE JsonErr

JsonLoads(g) ==
    IF Len(g) < 2 \/ g[1] # "[" THEN JsonErr ELSE JsonItems(g, 2, <<>>, FALSE)

\* format_metadata_comment(thread_id, from_email, message_ids)
format_metadata_comment(thread_id, from_email, message_ids) ==
    MetaOpen \o <<NL, "thread_id:", SP>> \o thread_id
             \o <<NL, "from:", SP>> \o from_email
             \o <<NL, "message_ids:", SP>> \o JsonDumps(message_ids)
             \o <<NL>> \o MetaClose

\* re.search(r'<!-- HELPDESK_METADATA\s+(.*?)\s+-->', body, re.DOTALL):
\* a match that opens at s has its group at a..e-1; \s+ before the group is
\* greedy (the largest a that still lets the rest match), the group is lazy
\* (the smallest e), and the closing \s+--> starts at e.
ClosesAt(body, e) ==
    /\ e <= Len(body)
    /\ IsWs(body[e])
    /\ StartsAt(body, WsEnd(body, e), MetaClose)

GroupStarts(body, s) ==
    LET o == s + Len(MetaOpen)
    IN  IF StartsAt(body, s, MetaOpen) /\ o <= Len(body) /\ IsWs(body[o])
        THEN {a \in (o + 1)..WsEnd(body, o) :
                 \E e \in a..Len(body) : ClosesAt(body, e)}
        ELSE {}

\* The spans <<s, a, e>> of a match per opening position s that has one.
BlockMatches(body) ==
    {s \in 1..Len(body) : GroupStarts(body, s) # {}}

BlockSpan(body, s) ==
    LET a == Max(GroupStarts(body, s))
        e == Min({x \in a..Len(body) : ClosesAt(body, x)})
    IN  [start |-> s, a |-> a, e |-> e,
         end |-> WsEnd(body, e) + Len(MetaClose) - 1]

\* r'thread_id:\s*(.+)' and r'from:\s*(.+)' (no DOTALL): the leftmost key
\* that has a match; \s* is greedy and gives back spaces only when (.+) would
\* otherwise be empty; (.+) runs to the end of the line.  The value is
\* stripped.  None when nothing matches (the dict key is not set).
FieldStarts(t, p) ==
    {b \in (p + 1)..WsEnd(t, p + 1) : b <= Len(t) /\ t[b] # NL}

ParseField(t, key) ==
    LET ps == {p \in 1..Len(t) : t[p] = key /\ FieldStarts(t, p) # {}}
    IN  IF ps = {} THEN None
        ELSE LET b == Max(FieldStarts(t, Min(ps)))
             IN  Some(Strip(SubSeq(t, b, LineEnd(t, b) - 1)))

\* r'message_ids:\s*(\[.*?\])' with DOTALL, then json.loads; a missing or
\* malformed list is the empty list.
ParseMessageIds(t) ==
    LET ps == {p \in 1..Len(t) :
                  /\ t[p] = "message_ids:"
                  /\ WsEnd(t, p + 1) <= Len(t)
                  /\ t[WsEnd(t, p + 1)] = "["
                  /\ \E r \in (WsEnd(t, p + 1) + 1)..Len(t) : t[r] = "]"}
    IN  IF ps = {} THEN <<>>
        ELSE LET w == WsEnd(t, Min(ps) + 1)
                 r == Min({x \in (w + 1)..Len(t) : t[x] = "]"})
                 v == JsonLoads(SubSeq(t, w, r))
             IN  IF v = JsonErr THEN <<>> ELSE v

\* json.loads recurses once for every array it enters, before it has seen
\* whether the text is well-formed, and raises RecursionError (which is not a
\* json.JSONDecodeError) when the arrays are nested deeper than the
\* interpreter allows: 991 levels in CPython 3.11, RecursionLimit here.
RecursionLimit == 3

\* The number of arrays json.loads has entered when it reads the first atom
\* of g that does not open one.
RECURSIVE JsonDepth(_, _)
JsonDepth(g, i) ==
    LET j == WsEnd(g, i)
    IN  IF j <= Len(g) /\ g[j] = "[" THEN 1 + JsonDepth(g, j + 1) ELSE 0

JsonLoadsRaises(g) == JsonDepth(g, 1) > RecursionLimit

\* parse_metadata_from_issue_body(body) raises: its try catches only
\* json.JSONDecodeError, so another exception of json.loads, on group 1 of
\* r'message_ids:\s*(\[.*?\])', leaves the function.
parse_metadata_raises(body) ==
    /\ BlockMatches(body) # {}
    /\ LET sp == BlockSpan(body, Min(BlockMatches(body)))
           t == SubSeq(body, sp.a, sp.e - 1)
           ps == {p \in 1..Len(t) :
                     /\ t[p] = "message_ids:"
                     /\ WsEnd(t, p + 1) <= Len(t)
                     /\ t[WsEnd(t, p + 1)] = "["
                     /\ \E r \in (WsEnd(t, p + 1) + 1)..Len(t) : t[r] = "]"}
       IN  /\ ps # {}
           /\ LET w == WsEnd(t, Min(ps) + 1)
                  r == Min({x \in (w + 1)..Len(t) : t[x] = "]"})
              IN  JsonLoadsRaises(SubSeq(t, w, r))

\* parse_metadata_from_issue_body(body), when it does not raise: None, or
\* Some(metadata dict); the keys thread_id and from are themselves optional.
parse_metadata_from_issue_body(body) ==
    IF BlockMatches(body) = {} THEN None
    ELSE LET sp == BlockSpan(body, Min(BlockMatches(body)))
             t == SubSeq(body, sp.a, sp.e - 1)
         IN  Some([thread_id |-> ParseField(t, "thread_id:"),
                   from |-> ParseField(t, "from:"),
                   message_ids |-> ParseMessageIds(t)])

(***************************************************************************)
(* utils.py: addresses, subject tags, titles                               *)
(***************************************************************************)

\* Atoms that are an address (match [^\s<>]+@[^\s<>]+ on their own).
AddrAtoms == {"jane@x", "bob@y"}

IsAngleOrWs(a) == IsWs(a) \/ a \in {"<", ">"}

\* Group 1 of r'<([^>]+)>' when it matches at i: the atoms up to the next ">".
AngleGroup(s, i) ==
    LET cl == {j \in (i + 1)..Len(s) : s[j] = ">"}
    IN  IF s[i] = "<" /\ cl # {} /\ Min(cl) > i + 1
        THEN Some(SubSeq(s, i + 1, Min(cl) - 1)) ELSE None

\* Group 2 of r'([^\s<>]+@[^\s<>]+)' when it matches at i: i starts a run of
\* atoms free of whitespace and angle brackets that holds an address.
BareGroup(s, i) ==
    LET stops == {j \in i..Len(s) : IsAngleOrWs(s[j])}
        last == IF stops = {} THEN Len(s) ELSE Min(stops) - 1
    IN  IF /\ ~IsAngleOrWs(s[i])
           /\ (i = 1 \/ IsAngleOrWs(s[i - 1]))
           /\ \E j \in i..last : s[j] \in AddrAtoms
        THEN Some(SubSeq(s, i, last)) ELSE None

\* parse_email_address(addr_string): the leftmost match of either
\* alternative, else the stripped input.
parse_email_address(addr_string) ==
    LET hits == {i \in 1..Len(addr_string) :
                    IsSome(AngleGroup(addr_string, i))
                       \/ IsSome(BareGroup(addr_string, i))}
    IN  IF hits = {} THEN Strip(addr_string)
        ELSE LET i == Min(hits)
             IN  IF IsSome(AngleGroup(addr_string, i))
                 THEN Get(AngleGroup(addr_string, i))
                 ELSE Get(BareGroup(addr_string, i))

Digits == <<"0", "1", "2", "3", "4", "5", "6", "7", "8", "9">>
IsDigit(a) == \E d \in 1..10 : Digits[d] = a
DigitValue(a) == (CHOOSE d \in 1..10 : Digits[d] = a) - 1

\* int("0042")
RECURSIVE ParseInt(_)
ParseInt(ds) ==
    IF Len(ds) = 0 THEN 0
    ELSE 10 * ParseInt(SubSeq(ds, 1, Len(ds) - 1)) + DigitValue(ds[Len(ds)])

\* First index after the digits that start at i.
DigitsEnd(s, i) ==
    LET non == {k \in i..Len(s) : ~IsDigit(s[k])}
    IN  IF non = {} THEN Len(s) + 1 ELSE Min(non)

\* r'\[GH-(\d+)\]' matches at i.
TagAt(s, i) ==
    /\ s[i] = "[GH-"
    /\ DigitsEnd(s, i + 1) > i + 1
    /\ DigitsEnd(s, i + 1) <= Len(s)
    /\ s[DigitsEnd(s, i + 1)] = "]"

\* extract_gh_number_from_subject(subject): Some(number) or None.
extract_gh_number_from_subject_NoTag(subject) == None

extract_gh_number_from_subject_LastTag(subject) ==
    LET hits == {i \in 1..Len(subject) : TagAt(subject, i)}
    IN  IF hits = {} THEN None
        ELSE Some(ParseInt(SubSeq(subject, Max(hits) + 1,
                                  DigitsEnd(subject, Max(hits) + 1) - 1)))

extract_gh_number_from_subject(subject) ==
    LET hits == {i \in 1..Len(subject) : TagAt(subject, i)}
    IN  IF hits = {} THEN None
        ELSE Some(ParseInt(SubSeq(subject, Min(hits) + 1,
                                  DigitsEnd(subject, Min(hits) + 1) - 1)))

\* re.sub(r'\[GH-\d+\]\s*', '', subject)
RECURSIVE StripTagsFrom(_, _)
StripTagsFrom(s, i) ==
    IF i > Len(s) THEN <<>>
    ELSE IF TagAt(s, i)
         THEN StripTagsFrom(s, WsEnd(s, DigitsEnd(s, i + 1) + 1))
         ELSE <<s[i]>> \o StripTagsFrom(s, i + 1)

\* (Re:|RE:|Fwd:|FW:) under re.IGNORECASE
ReplyPrefixes == {"Re:", "RE:", "re:", "rE:", "Fwd:", "FWD:", "fwd:", "FW:", "Fw:", "fw:"}

\* f"{n:04d}"
RECURSIVE DigitsOf(_)
DigitsOf(n) == IF n < 10 THEN <<Digits[n + 1]>>
               ELSE DigitsOf(n \div 10) \o <<Digits[(n % 10) + 1]>>

Pad4(n) ==
    LET ds == DigitsOf(n)
    IN  [k \in 1..(IF Len(ds) < 4 THEN 4 - Len(ds) ELSE 0) |-> "0"] \o ds

\* format_issue_title(issue_number, subject): every tag is removed, then
\* one reply prefix at the very start, then the padded tag is prepended.
format_issue_title(issue_number, subject) ==
    LET noTag == StripTagsFrom(subject, 1)
        clean == IF Len(noTag) > 0 /\ noTag[1] \in ReplyPrefixes
                 THEN SubSeq(noTag, WsEnd(noTag, 2), Len(noTag))
                 ELSE noTag
    IN  <<"[GH-">> \o Pad4(issue_number) \o <<"]", SP>> \o Strip(clean)

(***************************************************************************)
(* Bounds and inputs                                                       *)
(***************************************************************************)

\* Messages ever delivered to the mailbox.
MaxMails == 2
\* Things people (or other automations) ever do on the tracker: comment,
\* close, remove the label.
MaxEdits == 1
\* Inbound runs (one run = one invocation of email_to_github.main).
MaxRuns == 2
\* Calls to the external services (mailbox, tracker, mail transmission, blob
\* store) that fail.
MaxFaults == 2

\* Correlation tokens of the customers' mails.  NoToken is the value of a
\* header that the mail does not carry (msg.get('Message-ID', '')).
NoToken == <<>>
T1 == <<"<m1@x>">>
T2 == <<"<m2@x>">>
T3 == <<"<m3@x>">>
T4 == <<"<m4@x>">>

PlainSubject == <<"Login", SP, "issue">>
TaggedSubject(n) == <<"Re:", SP, "[GH-">> \o Pad4(n) \o <<"]", SP, "Login", SP, "issue">>

Jane == <<"Jane", SP, "Doe", SP, "<", "jane@x", ">">>
Bob == <<"bob@y">>

\* email_helper.Attachment
Picture == [filename |-> <<"shot.png">>, content_type |-> "image/png", size |-> 2048]
Report == [filename |-> <<"log.txt">>, content_type |-> "text/plain", size |-> 512]

\* A mail body that quotes markup, the echo marker and a mention.
MarkupBody == <<"see", SP, "<", "b", ">", SP, "@", "bot", SP>> \o create_email_marker

\* email_helper.EmailMessage, as fetch_email_by_id fills it (uid is the
\* message's place in the mailbox).
Mail(id, subject, from, body, html, irt, refs, atts) ==
    [message_id |-> id, subject |-> subject, from_addr |-> from, body |-> body,
     html_body |-> html, in_reply_to |-> irt, references |-> refs,
     attachments |-> atts]

\* The mails a customer may send.
MailNew1 == Mail(T1, PlainSubject, Jane, <<"help">>, <<>>, NoToken, <<>>, <<>>)
MailNew2 == Mail(T2, <<"Fwd:", SP, "Bug">>, Bob, <<>>, MarkupBody, NoToken, <<>>, <<>>)
MailNoId == Mail(NoToken, PlainSubject, Jane, <<"help">>, <<>>, NoToken, <<>>, <<>>)
MailReply == Mail(T3, <<"Re:", SP>> \o PlainSubject, Jane, MarkupBody, <<>>, T1,
                  <<T1>>, <<Picture>>)
MailTag1 == Mail(T4, TaggedSubject(1), Bob, <<"thanks">>, <<>>, T1, <<T1>>, <<>>)
MailTag2 == Mail(T4, TaggedSubject(2), Jane, <<"thanks">>, <<>>, T1, <<T1>>, <<>>)
MailTag0 == Mail(T4, TaggedSubject(0), Jane, <<"thanks">>, <<>>, NoToken, <<>>, <<>>)

Mails == {MailNew1, MailNew2, MailNoId, MailReply, MailTag1, MailTag2, MailTag0}

\* The comments people post: internal, addressed to the customer (the
\* mention in another letter case), and one that quotes the echo marker.
PostInternal == <<"looking", SP, "into", SP, "it">>
PostMention == <<"@", "BOT", SP, "fixed">>
PostQuote == <<"@", "bot", SP>> \o create_email_marker
\* ... and who posts them: a person (type User) or an automation (type Bot).
Posts == {[body |-> PostInternal, type |-> "User"], [body |-> PostMention, type |-> "User"],
          [body |-> PostQuote, type |-> "User"], [body |-> PostMention, type |-> "Bot"]}

\* The support-queue label.
HelpdeskLabel == <<"helpdesk">>

\* The tracker login of the synchronizer (github_to_email.get_authenticated_user);
\* <<>> when the lookup failed.
BotLogin == <<"bot">>

(***************************************************************************)
(* State                                                                   *)
(***************************************************************************)

VARIABLES
    mailbox,         \* Mailbox Service: sequence of [msg, seen]
    issues,          \* Tracker Service: issue number -> issue
    comments,        \* Tracker Service: sequence of comments
    events,          \* issue_comment events: sequence of payloads
    pending,         \* events whose workflow run has not happened yet
    sent,            \* Mail Transmission Service: mails transmitted
    outLog,          \* outcome of every outbound run
    gen,             \* number of tokens generate_message_id has produced
    edits,           \* what people did on the tracker so far (a count)
    faults,          \* calls to external services that failed so far (a count)
    pc,              \* inbound run: "idle", "resolve", "get", "reopen",
                     \*   "comment", "update", "create", "exit"
    batch,           \* inbound run: uids fetched, in mailbox order
    idx,             \* inbound run: place in batch of the current message
    processed_count, \* inbound run
    failed_count,    \* inbound run
    exit_status,     \* inbound run: "none" while running, then 0 or 1
    unit,            \* inbound run: locals of process_email for this message
    unitLog,         \* history: every finished unit
    reopenLog,       \* history: every reopen_issue call
    runs,            \* inbound runs started
    call             \* a function applied on its own: its name, arguments, result

vars == <<mailbox, issues, comments, events, pending, sent, outLog, gen, edits, faults,
          pc, batch, idx, processed_count, failed_count, exit_status, unit,
          unitLog, reopenLog, runs, call>>

trackerVars == <<issues, comments, events, pending>>
outboundVars == <<sent, outLog, gen>>
inboundVars == <<pc, batch, idx, processed_count, failed_count, exit_status,
                 unit, unitLog, reopenLog, runs>>

IssueNumbers == 1..Len(issues)

\* The locals of one process_email call, and what it did (for the history).
NoUnit == [uid |-> 0, via |-> "none", target |-> 0, searched |-> FALSE,
           irtOpen |-> {}, anyOpen |-> {}, issue |-> None, commented |-> FALSE,
           created |-> 0, predicted |-> 0, retitle |-> "none", append |-> "none",
           reason |-> "none"]

\* No function is applied on its own while the system runs.
NoCall == [fn |-> "none"]

\* The state before the first run: an empty mailbox and an empty tracker.
SysInit ==
    /\ mailbox = <<>>
    /\ issues = <<>>
    /\ comments = <<>>
    /\ events = <<>>
    /\ pending = {}
    /\ sent = <<>>
    /\ outLog = <<>>
    /\ gen = 0
    /\ edits = 0
    /\ faults = 0
    /\ pc = "idle"
    /\ batch = <<>>
    /\ idx = 0
    /\ processed_count = 0
    /\ failed_count = 0
    /\ exit_status = "none"
    /\ unit = NoUnit
    /\ unitLog = <<>>
    /\ reopenLog = <<>>
    /\ runs = 0

Init == SysInit /\ call = NoCall

(***************************************************************************)
(* The environment: customers, people on the tracker, failing services     *)
(***************************************************************************)

\* n more calls to an external service fail in this step.
Fault(n) == faults + n <= MaxFaults /\ faults' = faults + n
\* 0 for a call that succeeded, 1 for one that failed.
Failed(ok) == IF ok THEN 0 ELSE 1

\* A customer's mail arrives in the mailbox, unseen.  A mail that arrives
\* during an inbound run is not in its batch: it is the same as one that
\* arrives after the run, so mails arrive between runs.
Deliver(m) ==
    /\ pc = "idle"
    /\ Len(mailbox) < MaxMails
    /\ mailbox' = Append(mailbox, [msg |-> m, seen |-> FALSE])
    /\ UNCHANGED <<trackerVars, outboundVars, inboundVars, edits, faults>>
    /\ UNCHANGED call

\* The payload of the issue_comment event for comment c on issue n: the
\* tracker's copy of the issue when the comment is created.
EventFor(n, c) ==
    [issue |-> [number |-> n, title |-> issues[n].title, body |-> issues[n].body,
                labels |-> issues[n].labels],
     comment |-> c]

\* Somebody closes an open conversation on the tracker.
CloseIssue(n) ==
    /\ n \in IssueNumbers
    /\ issues[n].state = "open"
    /\ edits < MaxEdits
    /\ edits' = edits + 1
    /\ issues' = [issues EXCEPT ![n].state = "closed"]
    /\ UNCHANGED <<mailbox, comments, events, pending, outboundVars, inboundVars, faults>>
    /\ UNCHANGED call

\* Somebody removes the support-queue label.
Unlabel(n) ==
    /\ n \in IssueNumbers
    /\ HelpdeskLabel \in issues[n].labels
    /\ edits < MaxEdits
    /\ edits' = edits + 1
    /\ issues' = [issues EXCEPT ![n].labels = @ \ {HelpdeskLabel}]
    /\ UNCHANGED <<mailbox, comments, events, pending, outboundVars, inboundVars, faults>>
    /\ UNCHANGED call

\* A person (type User) or an automation (type Bot) comments on an issue;
\* the tracker raises an issue_comment event.
PostComment(n, body, type) ==
    /\ n \in IssueNumbers
    /\ edits < MaxEdits
    /\ edits' = edits + 1
    /\ LET c == [issue |-> n, body |-> body, user_type |-> type, origin |-> "tracker"]
       IN  /\ comments' = Append(comments, c)
           /\ events' = Append(events, EventFor(n, c))
           /\ pending' = pending \cup {Len(events) + 1}
    /\ UNCHANGED <<mailbox, issues, outboundVars, inboundVars, faults>>
    /\ UNCHANGED call

(***************************************************************************)
(* email_to_github.py: attachments                                         *)
(***************************************************************************)

image_types == {"image/png", "image/jpeg", "image/jpg", "image/gif", "image/bmp",
                "image/webp"}

\* GitHubHelper.upload_attachment_to_repo(data, filename, issue_number): the
\* Blob Store's URL of the stored file (None when the upload failed).
UploadUrl(filename, issue_number) ==
    <<"https://blob/attachments/issue-">> \o DigitsOf(issue_number) \o <<"/">> \o filename

\* f"({size / 1024:.1f} KB)"
SizeKb(size) ==
    LET tenths == (size * 10 + 512) \div 1024
    IN  <<"(">> \o DigitsOf(tenths \div 10) \o <<".">> \o DigitsOf(tenths % 10)
              \o <<SP, "KB", ")">>

ImageEntry(att, n) ==
    <<"!", "[">> \o att.filename \o <<"]", "(">> \o UploadUrl(att.filename, n) \o <<")", NL>>
LinkEntry(att, n) ==
    <<"-", SP, "[">> \o att.filename \o <<"]", "(">> \o UploadUrl(att.filename, n)
        \o <<")", SP>> \o SizeKb(att.size) \o <<NL>>
\* BACKTICK is the atom of the grave accent that opens and closes inline code.
BACKTICK == "grave-accent"
FallbackEntry(att) ==
    <<"-", SP, BACKTICK>> \o att.filename \o <<BACKTICK, SP>> \o SizeKb(att.size)
        \o <<SP, "-", SP, "Upload failed, check original email", NL>>

\* The subsequence of s whose indices are in S, last first.
RECURSIVE PickReversed(_, _, _)
PickReversed(s, S, i) ==
    IF i > Len(s) THEN <<>>
    ELSE PickReversed(s, S, i + 1) \o (IF i \in S THEN <<s[i]>> ELSE <<>>)

\* The subsequence of s whose indices are in S, in order.
RECURSIVE Pick(_, _, _)
Pick(s, S, i) ==
    IF i > Len(s) THEN <<>>
    ELSE (IF i \in S THEN <<s[i]>> ELSE <<>>) \o Pick(s, S, i + 1)

\* process_attachments(attachments, github, issue_number).  The pictograph
\* in each of the two headers is left out of the header's atoms.  up1[k] is the
\* outcome of the first upload of attachment k, up2[k] the outcome of the
\* second upload of an image whose first upload failed (it is moved to the
\* list of other files and uploaded again there).
process_attachments_DropFailedImages(attachments, issue_number, up1, up2) ==
    LET all == 1..Len(attachments)
        imgs == {k \in all : attachments[k].content_type \in image_types}
        imgOk == {k \in imgs : up1[k]}
        \* other_files: the non-images in order, then the failed images in order
        others == Pick([k \in all |-> k], all \ imgs, 1)
        okLater(k) == IF k \in imgs THEN up2[k] ELSE up1[k]
        imgPart == IF imgs = {} THEN <<>>
                   ELSE <<<<"###", SP, "Attached Images", NL>>>>
                        \o [j \in 1..Cardinality(imgOk) |->
                              ImageEntry(attachments[Pick([k \in all |-> k], imgOk, 1)[j]],
                                         issue_number)]
        otherPart == IF Len(others) = 0 THEN <<>>
                     ELSE <<<<"###", SP, "Other Attachments", NL>>>>
                          \o [j \in 1..Len(others) |->
                                IF okLater(others[j])
                                THEN LinkEntry(attachments[others[j]], issue_number)
                                ELSE FallbackEntry(attachments[others[j]])]
    IN  IF Len(attachments) = 0 THEN <<>>
        ELSE Join(imgPart \o otherPart, <<NL>>)

process_attachments(attachments, issue_number, up1, up2) ==
    LET all == 1..Len(attachments)
        imgs == {k \in all : attachments[k].content_type \in image_types}
        imgOk == {k \in imgs : up1[k]}
        \* other_files: the non-images in order, then the failed images in order
        others == Pick([k \in all |-> k], all \ imgs, 1)
                    \o Pick([k \in all |-> k], imgs \ imgOk, 1)
        okLater(k) == IF k \in imgs THEN up2[k] ELSE up1[k]
        imgPart == IF imgs = {} THEN <<>>
                   ELSE <<<<"###", SP, "Attached Images", NL>>>>
                        \o [j \in 1..Cardinality(imgOk) |->
                              ImageEntry(attachments[Pick([k \in all |-> k], imgOk, 1)[j]],
                                         issue_number)]
        otherPart == IF Len(others) = 0 THEN <<>>
                     ELSE <<<<"###", SP, "Other Attachments", NL>>>>
                          \o [j \in 1..Len(others) |->
                                IF okLater(others[j])
                                THEN LinkEntry(attachments[others[j]], issue_number)
                                ELSE FallbackEntry(attachments[others[j]])]
    IN  IF Len(attachments) = 0 THEN <<>>
        ELSE Join(imgPart \o otherPart, <<NL>>)

(***************************************************************************)
(* email_to_github.py: resolution                                          *)
(***************************************************************************)

\* metadata.get('message_ids', []) of an issue body; <<>> without metadata.
StoredTokens(body) ==
    LET md == parse_metadata_from_issue_body(body)
    IN  IF IsSome(md) THEN Get(md).message_ids ELSE <<>>

\* The test find_issue_by_thread applies to one issue of the search result.
ThreadMatches(msg, body) ==
    LET md == parse_metadata_from_issue_body(body)
    IN  /\ IsSome(md)
        /\ \/ msg.in_reply_to # <<>> /\ InSeq(msg.in_reply_to, Get(md).message_ids)
           \/ \E r \in 1..Len(msg.references) :
                 InSeq(msg.references[r], Get(md).message_ids)

\* find_issue_by_thread(email_msg, github) on the search result `found` (issue
\* numbers in the search's order): the first issue that matches, 0 for None.
find_issue_by_thread(msg, found) ==
    LET hits == {k \in 1..Len(found) : ThreadMatches(msg, issues[found[k]].body)}
    IN  IF hits = {} THEN 0 ELSE found[Min(hits)]

\* The orders in which the search service may return the set S of issues.
Orders(S) ==
    {f \in [1..Cardinality(S) -> S] : \A i, j \in 1..Cardinality(S) : f[i] = f[j] => i = j}

\* What search_issues("label:helpdesk is:open") returns: the open issues that
\* carry the label, in the search's order; the empty list when the request
\* failed (the error is logged and swallowed).
OpenHelpdesk == {n \in IssueNumbers :
                    issues[n].state = "open" /\ HelpdeskLabel \in issues[n].labels}
SearchResults == Orders(OpenHelpdesk)
SearchFailed == <<>>

\* `if gh_number:` in process_email: None and 0 are both false.
Truthy(gh_number) == IsSome(gh_number) /\ Get(gh_number) # 0

(***************************************************************************)
(* email_to_github.py: one inbound run                                     *)
(***************************************************************************)

CurrentUid == batch[idx]
CurrentMsg == mailbox[CurrentUid].msg

\* The index main's for loop takes after a unit that ended with `success`.
NextIdxFailFast(i, success) == IF success THEN i + 1 ELSE Len(batch) + 1

NextIdx(i, success) == i + 1

\* main, after process_email returned (result "ok" / "false") or raised
\* (result "exception"): count, mark seen on success, go on with the next
\* message.  The outcome of mark_email_as_seen (storeOk) is not looked at.
FinishUnitRetry(u, result, storeOk) ==
    /\ unitLog' = Append(unitLog, [uid |-> u.uid, via |-> u.via, target |-> u.target,
                                   searched |-> u.searched, irtOpen |-> u.irtOpen,
                                   anyOpen |-> u.anyOpen, commented |-> u.commented,
                                   created |-> u.created, predicted |-> u.predicted,
                                   retitle |-> u.retitle, append |-> u.append,
                                   reason |-> u.reason,
                                   result |-> result, run |-> runs])
    /\ processed_count' = IF result = "ok" THEN processed_count + 1 ELSE processed_count
    /\ failed_count' = IF result = "ok" THEN failed_count ELSE failed_count + 1
    /\ mailbox' = [mailbox EXCEPT ![u.uid].seen = (result = "ok" /\ storeOk)]
    /\ idx' = NextIdx(idx, result = "ok")
    /\ pc' = IF NextIdx(idx, result = "ok") > Len(batch) THEN "exit" ELSE "resolve"
    /\ unit' = NoUnit

FinishUnit(u, result, storeOk) ==
    /\ unitLog' = Append(unitLog, [uid |-> u.uid, via |-> u.via, target |-> u.target,
                                   searched |-> u.searched, irtOpen |-> u.irtOpen,
                                   anyOpen |-> u.anyOpen, commented |-> u.commented,
                                   created |-> u.created, predicted |-> u.predicted,
                                   retitle |-> u.retitle, append |-> u.append,
                                   reason |-> u.reason,
                                   result |-> result, run |-> runs])
    /\ processed_count' = IF result = "ok" THEN processed_count + 1 ELSE processed_count
    /\ failed_count' = IF result = "ok" THEN failed_count ELSE failed_count + 1
    /\ mailbox' = IF result = "ok" /\ storeOk
                  THEN [mailbox EXCEPT ![u.uid].seen = TRUE] ELSE mailbox
    /\ idx' = NextIdx(idx, result = "ok")
    /\ pc' = IF NextIdx(idx, result = "ok") > Len(batch) THEN "exit" ELSE "resolve"
    /\ unit' = NoUnit

\* What SEARCH UNSEEN lists.
Unseen == {u \in 1..Len(mailbox) : ~mailbox[u].seen}

\* main up to the loop: connect_imap, fetch_unseen_emails.  SEARCH UNSEEN
\* lists the unseen messages; each is fetched with FETCH (RFC822) in a
\* mailbox selected read-write, which sets its \Seen flag at the server
\* (RFC 3501, 6.4.5: RFC822 is BODY[], not BODY.PEEK[]).  A message whose
\* fetch failed is left out of the batch.
InboundStart ==
    /\ pc = "idle"
    /\ runs < MaxRuns
    /\ runs' = runs + 1
    /\ \/ \* connect_imap raised: sys.exit(1)
          /\ Fault(1)
          /\ exit_status' = 1
          /\ batch' = <<>>
          /\ idx' = 0
          /\ processed_count' = 0
          /\ failed_count' = 0
          /\ UNCHANGED <<mailbox, pc>>
       \/ \E fetched \in SUBSET Unseen :
             /\ Fault(Cardinality(Unseen \ fetched))
             /\ mailbox' = [u \in 1..Len(mailbox) |->
                              IF u \in fetched THEN [mailbox[u] EXCEPT !.seen = TRUE]
                              ELSE mailbox[u]]
             /\ batch' = Pick([u \in 1..Len(mailbox) |-> u], fetched, 1)
             /\ idx' = 1
             /\ processed_count' = 0
             /\ failed_count' = 0
             /\ exit_status' = "none"
             /\ pc' = IF fetched = {} THEN "exit" ELSE "resolve"
    /\ UNCHANGED <<trackerVars, outboundVars, edits, unit, unitLog, reopenLog>>
    /\ UNCHANGED call

\* process_email up to the choice of the branch: the tag of the subject, or
\* else the search by thread metadata.  (\E x \in {e} names the value e, here
\* and in the other actions.)
Resolve ==
    /\ pc = "resolve"
    /\ \E msg \in {CurrentMsg} :
       \E gh_number \in {extract_gh_number_from_subject(msg.subject)},
          base \in {[NoUnit EXCEPT !.uid = CurrentUid,
                      !.irtOpen = {n \in OpenHelpdesk :
                                     msg.in_reply_to # <<>>
                                       /\ InSeq(msg.in_reply_to, StoredTokens(issues[n].body))},
                      !.anyOpen = {n \in OpenHelpdesk : ThreadMatches(msg, issues[n].body)}]} :
           IF Truthy(gh_number)
           THEN /\ unit' = [base EXCEPT !.via = "tag", !.target = Get(gh_number)]
                /\ pc' = "get"
                /\ Fault(0)
           ELSE \E found \in SearchResults \cup {SearchFailed} :
                   \E existing \in {find_issue_by_thread(msg, found)} :
                       /\ Fault(Failed(found \in SearchResults))
                       /\ IF existing # 0
                          THEN /\ unit' = [base EXCEPT !.via = "thread",
                                                       !.target = existing, !.searched = TRUE]
                               /\ pc' = "get"
                          ELSE /\ unit' = [base EXCEPT !.via = "create", !.searched = TRUE]
                               /\ pc' = "create"
    /\ UNCHANGED <<mailbox, trackerVars, outboundVars, edits, batch, idx, processed_count,
                   failed_count, exit_status, unitLog, reopenLog, runs>>
    /\ UNCHANGED call

\* handle_reply: github.get_issue(issue_number).  The request fails or the
\* tracker holds no such issue (None: the unit fails), the answer cannot be
\* read (an exception that main catches), or the issue is returned.
GetIssue ==
    /\ pc = "get"
    /\ \/ /\ Fault(Failed(unit.target \notin IssueNumbers))
          /\ \E storeOk \in BOOLEAN :
                FinishUnit([unit EXCEPT !.reason = "issue not found"], "false", storeOk)
          /\ UNCHANGED <<trackerVars, reopenLog>>
       \/ /\ Fault(1)
          /\ \E storeOk \in BOOLEAN :
                FinishUnit([unit EXCEPT !.reason = "raised"], "exception", storeOk)
          /\ UNCHANGED <<trackerVars, reopenLog>>
       \/ /\ unit.target \in IssueNumbers
          /\ Fault(0)
          /\ unit' = [unit EXCEPT !.issue = Some([number |-> unit.target,
                                                   state |-> issues[unit.target].state,
                                                   body |-> issues[unit.target].body])]
          /\ pc' = IF issues[unit.target].state = "closed" THEN "reopen" ELSE "comment"
          /\ UNCHANGED <<mailbox, trackerVars, idx, processed_count, failed_count,
                         unitLog, reopenLog>>
    /\ UNCHANGED <<outboundVars, edits, batch, exit_status, runs>>
    /\ UNCHANGED call

\* GitHubHelper.reopen_issue: update_issue(issue_number, state="open") sends
\* the state only; the tracker keeps every other field of the issue.
ReopenedIssueEmptyBody(issue) == [issue EXCEPT !.state = "open", !.body = <<>>]

ReopenedIssue(issue) == [issue EXCEPT !.state = "open"]

\* handle_reply: github.reopen_issue(issue_number) when the issue that was
\* read is closed; the result is not looked at.
Reopen ==
    /\ pc = "reopen"
    /\ \E ok \in BOOLEAN :
          /\ Fault(Failed(ok))
          /\ issues' = IF ok
                        THEN [issues EXCEPT ![unit.target] = ReopenedIssue(@)]
                        ELSE issues
          /\ reopenLog' = Append(reopenLog,
                                 [issue |-> unit.target, via |-> unit.via, uid |-> unit.uid,
                                  reopened |-> ok /\ issues[unit.target].state = "closed"])
    /\ pc' = "comment"
    /\ UNCHANGED <<mailbox, comments, events, pending, outboundVars, edits, batch, idx,
                   processed_count, failed_count, exit_status, unit, unitLog, runs>>
    /\ UNCHANGED call

\* body_text = email_msg.body if email_msg.body else email_msg.html_body
BodyText(msg) == IF msg.body # <<>> THEN msg.body ELSE msg.html_body

\* The comment body handle_reply builds.
ReplyCommentNoMarker(msg, issue_number, up1, up2) ==
    LET clean_body == sanitize_email_body(BodyText(msg))
        section == process_attachments(msg.attachments, issue_number, up1, up2)
    IN  IF section # <<>>
        THEN clean_body \o <<NL, NL>> \o section
        ELSE clean_body

ReplyComment(msg, issue_number, up1, up2) ==
    LET clean_body == sanitize_email_body(BodyText(msg))
        section == process_attachments(msg.attachments, issue_number, up1, up2)
    IN  IF section # <<>>
        THEN clean_body \o <<NL, NL>> \o section \o <<NL, NL>> \o create_email_marker
        ELSE clean_body \o <<NL, NL>> \o create_email_marker

\* The outcomes <<up1, up2>> of the uploads of a message's attachments.
Uploads(msg) ==
    LET all == 1..Len(msg.attachments)
    IN  {u \in [all -> BOOLEAN] \X [all -> BOOLEAN] :
           \A k \in all :
              \/ u[2][k]
              \/ ~u[1][k] /\ msg.attachments[k].content_type \in image_types}
\* The uploads that failed.
UploadFaults(u) ==
    Cardinality({k \in DOMAIN u[1] : ~u[1][k]}) + Cardinality({k \in DOMAIN u[2] : ~u[2][k]})

\* handle_reply: the attachments are uploaded and github.add_comment is
\* called.  The comment is written by the synchronizer's tracker account, a
\* user account (the "customer bot" whose login github_to_email.main looks
\* up), and the tracker raises its issue_comment event.  When add_comment
\* fails the unit fails.
Comment ==
    /\ pc = "comment"
    /\ \/ \E u \in Uploads(CurrentMsg) :
             /\ Fault(UploadFaults(u) + 1)
             /\ \E storeOk \in BOOLEAN :
                   FinishUnit([unit EXCEPT !.reason = "comment failed"], "false", storeOk)
             /\ UNCHANGED <<comments, events, pending>>
       \/ \E u \in Uploads(CurrentMsg) :
             LET c == [issue |-> unit.target,
                       body |-> ReplyComment(CurrentMsg, unit.target, u[1], u[2]),
                       user_type |-> "User", origin |-> "mail"]
             IN  /\ Fault(UploadFaults(u))
                 /\ comments' = Append(comments, c)
                 /\ events' = Append(events, EventFor(unit.target, c))
                 /\ pending' = pending \cup {Len(events) + 1}
                 /\ unit' = [unit EXCEPT !.commented = TRUE]
                 /\ pc' = "update"
                 /\ UNCHANGED <<mailbox, idx, processed_count, failed_count, unitLog>>
    /\ UNCHANGED <<issues, outboundVars, edits, batch, exit_status, reopenLog, runs>>
    /\ UNCHANGED call

\* email_to_github.update_issue_metadata(issue, new_message_id, github): the
\* body it passes to github.update_issue, None when it makes no call (no
\* metadata, token already stored, or the KeyError of a missing thread_id or
\* from key, which its try/except swallows).
InboundNewBodyNewThread(body, new_message_id) ==
    LET md == parse_metadata_from_issue_body(body)
    IN  IF ~IsSome(md) THEN None
        ELSE IF InSeq(new_message_id, Get(md).message_ids) THEN None
        ELSE IF ~IsSome(Get(md).thread_id) \/ ~IsSome(Get(md).from) THEN None
        ELSE LET tid == Get(Get(md).thread_id)
                 from == Get(Get(md).from)
                 old == format_metadata_comment(tid, from, Get(md).message_ids)
                 new == format_metadata_comment(new_message_id, from,
                           Append(Get(md).message_ids, new_message_id))
             IN  Some(Replace(body, old, new))

InboundNewBodyAddsBlock(body, new_message_id) ==
    LET md == parse_metadata_from_issue_body(body)
    IN  IF ~IsSome(md) THEN None
        ELSE IF InSeq(new_message_id, Get(md).message_ids) THEN None
        ELSE IF ~IsSome(Get(md).thread_id) \/ ~IsSome(Get(md).from) THEN None
        ELSE Some(body \o <<NL>>
                    \o format_metadata_comment(Get(Get(md).thread_id), Get(Get(md).from),
                                                Append(Get(md).message_ids, new_message_id)))

InboundNewBody(body, new_message_id) ==
    LET md == parse_metadata_from_issue_body(body)
    IN  IF ~IsSome(md) THEN None
        ELSE IF InSeq(new_message_id, Get(md).message_ids) THEN None
        ELSE IF ~IsSome(Get(md).thread_id) \/ ~IsSome(Get(md).from) THEN None
        ELSE LET tid == Get(Get(md).thread_id)
                 from == Get(Get(md).from)
                 old == format_metadata_comment(tid, from, Get(md).message_ids)
                 new == format_metadata_comment(tid, from,
                           Append(Get(md).message_ids, new_message_id))
             IN  Some(Replace(body, old, new))

\* handle_reply after the comment was added: update_issue_metadata on the
\* issue as it was read by get_issue, then return True.  A failed
\* github.update_issue leaves the tracker as it is.
\* What update_issue_metadata did is kept in the unit's record: "skipped" (no
\* call of update_issue), "failed" (the call failed), "same" (it wrote the body
\* as read, the old block not being in it), "written".
handle_reply_result_AppendMustWrite(comment_added, append) ==
    IF comment_added /\ append = "written" THEN "ok" ELSE "false"

\* handle_reply's return value: True when add_comment returned a comment,
\* whatever update_issue_metadata did.
handle_reply_result(comment_added, append) ==
    IF comment_added THEN "ok" ELSE "false"

UpdateMeta ==
    /\ pc = "update"
    /\ \E new_body \in {InboundNewBody(Get(unit.issue).body, CurrentMsg.message_id)},
          storeOk \in BOOLEAN :
           IF IsSome(new_body)
           THEN \E writeOk \in BOOLEAN :
                   /\ Fault(Failed(writeOk))
                   /\ issues' = IF writeOk
                                 THEN [issues EXCEPT ![unit.target].body = Get(new_body)]
                                 ELSE issues
                   /\ \E append \in {IF ~writeOk THEN "failed"
                                      ELSE IF Get(new_body) = Get(unit.issue).body
                                      THEN "same" ELSE "written"} :
                         FinishUnit([unit EXCEPT !.reason = "replied", !.append = append],
                                    handle_reply_result(unit.commented, append), storeOk)
           ELSE /\ Fault(0) /\ UNCHANGED issues
                /\ FinishUnit([unit EXCEPT !.reason = "replied", !.append = "skipped"],
                              handle_reply_result(unit.commented, "skipped"), storeOk)
    /\ UNCHANGED <<comments, events, pending, outboundVars, edits, batch, exit_status,
                   reopenLog, runs>>
    /\ UNCHANGED call

\* The body create_new_issue gives the new issue.
NewIssueBodyNoBlock(msg, from_email, issue_number, up1, up2) ==
    LET clean_body == sanitize_email_body(BodyText(msg))
        section == process_attachments(msg.attachments, issue_number, up1, up2)
    IN  IF section # <<>>
        THEN clean_body \o <<NL, NL>> \o section
        ELSE clean_body

NewIssueBody(msg, from_email, issue_number, up1, up2) ==
    LET clean_body == sanitize_email_body(BodyText(msg))
        section == process_attachments(msg.attachments, issue_number, up1, up2)
        metadata == format_metadata_comment(msg.message_id, from_email, <<msg.message_id>>)
    IN  IF section # <<>>
        THEN clean_body \o <<NL, NL>> \o section \o <<NL, NL>> \o metadata
        ELSE clean_body \o <<NL, NL>> \o metadata

\* GitHubHelper.get_next_issue_number(): the newest issue's number plus one,
\* 1 when there is none or the request failed.
NextIssueNumbers == {Len(issues) + 1, 1}

\* create_new_issue, after create_issue: the title the new issue has in the
\* end.  It was created with the title of the predicted number; when the
\* assigned number differs, github.update_issue(actual_number, title=...) is
\* called, and its outcome (titleOk) is not looked at.
CorrectedTitleNever(actual_number, issue_number, subject, titleOk) ==
    format_issue_title(issue_number, subject)

CorrectedTitle(actual_number, issue_number, subject, titleOk) ==
    IF actual_number # issue_number /\ titleOk
    THEN format_issue_title(actual_number, subject)
    ELSE format_issue_title(issue_number, subject)

\* create_new_issue(email_msg, from_email, github, project_id).  project is
\* "off" (no PROJECT_ID, or no node id), "ok" or "failed".
Create ==
    /\ pc = "create"
    /\ LET msg == CurrentMsg
           from_email == parse_email_address(msg.from_addr)
       IN  \/ \* github.create_issue returned None
              \E issue_number \in NextIssueNumbers, u \in Uploads(msg) :
                 /\ Fault(Failed(issue_number = Len(issues) + 1) + UploadFaults(u) + 1)
                 /\ \E storeOk \in BOOLEAN :
                       FinishUnit([unit EXCEPT !.reason = "create failed"], "false", storeOk)
                 /\ UNCHANGED issues
           \/ \E issue_number \in NextIssueNumbers, u \in Uploads(msg),
                 titleOk \in BOOLEAN, project \in {"off", "ok", "failed"},
                 storeOk \in BOOLEAN :
                 LET actual_number == Len(issues) + 1
                     up1 == u[1]
                     up2 == u[2]
                     title == CorrectedTitle(actual_number, issue_number, msg.subject,
                                             titleOk)
                 IN  /\ actual_number = issue_number => titleOk
                     /\ Fault(Failed(issue_number = actual_number) + UploadFaults(u)
                                + Failed(titleOk) + Failed(project # "failed"))
                     /\ issues' = Append(issues,
                                    [state |-> "open", title |-> title,
                                     body |-> NewIssueBody(msg, from_email, issue_number,
                                                           up1, up2),
                                     labels |-> {HelpdeskLabel, <<"from:">> \o from_email},
                                     origin |-> unit.uid])
                     /\ FinishUnit([unit EXCEPT !.created = actual_number,
                                                !.predicted = issue_number,
                                                !.retitle =
                                                    IF actual_number = issue_number
                                                    THEN "none"
                                                    ELSE IF titleOk THEN "ok"
                                                    ELSE "failed",
                                                !.reason = IF project = "failed"
                                                           THEN "project failed"
                                                           ELSE "created"],
                                   IF project = "failed" THEN "false" ELSE "ok", storeOk)
    /\ UNCHANGED <<comments, events, pending, outboundVars, edits, batch, exit_status,
                   reopenLog, runs>>
    /\ UNCHANGED call

\* main after the loop: the summary, sys.exit(1) when a message failed, and
\* close_imap.
InboundExit ==
    /\ pc = "exit"
    /\ exit_status' = IF failed_count > 0 THEN 1 ELSE 0
    /\ pc' = "idle"
    /\ UNCHANGED <<mailbox, trackerVars, outboundVars, edits, faults, batch, idx,
                   processed_count, failed_count, unit, unitLog, reopenLog, runs>>
    /\ UNCHANGED call

(***************************************************************************)
(* github_to_email.py: one outbound run (one issue_comment event)          *)
(***************************************************************************)

\* str.lower() on the atoms of this model.
LowerAtom(a) == IF a \in {"BOT", "Bot"} THEN "bot" ELSE a
Lower(s) == [k \in 1..Len(s) |-> LowerAtom(s[k])]

\* mentions_customer_bot(comment_body, customer_bot_username)
mentions_customer_bot(comment_body, customer_bot_username) ==
    IF comment_body = <<>> \/ customer_bot_username = <<>> THEN FALSE
    ELSE Contains(Lower(comment_body), Lower(<<"@">> \o customer_bot_username))

\* should_skip_comment(event_data, customer_bot_username): the reason of the
\* skip, "" when the comment is to be sent.
should_skip_comment_NoBotGate(event_data, customer_bot_username) ==
    IF HelpdeskLabel \notin event_data.issue.labels
    THEN "Issue does not have 'helpdesk' label"
    ELSE IF has_email_marker(event_data.comment.body)
    THEN "Comment originated from email (has marker)"
    ELSE IF /\ customer_bot_username # <<>>
            /\ ~mentions_customer_bot(event_data.comment.body, customer_bot_username)
    THEN "Comment does not mention the customer bot (internal comment)"
    ELSE ""

should_skip_comment(event_data, customer_bot_username) ==
    IF HelpdeskLabel \notin event_data.issue.labels
    THEN "Issue does not have 'helpdesk' label"
    ELSE IF event_data.comment.user_type = "Bot"
    THEN "Comment author is a bot"
    ELSE IF has_email_marker(event_data.comment.body)
    THEN "Comment originated from email (has marker)"
    ELSE IF /\ customer_bot_username # <<>>
            /\ ~mentions_customer_bot(event_data.comment.body, customer_bot_username)
    THEN "Comment does not mention the customer bot (internal comment)"
    ELSE ""

\* generate_message_id(): a token no earlier call returned (a hash of the
\* clock and a random number).
GenTokens == <<"<g1@github-helpdesk>", "<g2@github-helpdesk>", "<g3@github-helpdesk>",
               "<g4@github-helpdesk>", "<g5@github-helpdesk>", "<g6@github-helpdesk>",
               "<g7@github-helpdesk>", "<g8@github-helpdesk>">>
generate_message_id(k) == <<GenTokens[k]>>

\* github_to_email.update_issue_metadata(issue, new_message_id, metadata,
\* github): the body it passes to github.update_issue, None when the missing
\* thread_id key raises the KeyError that its try/except swallows.
OutboundNewBodyNoAppend(body, md, new_message_id) == Some(body)

OutboundNewBodyBlockOnly(body, md, new_message_id) ==
    IF ~IsSome(md.thread_id) \/ ~IsSome(md.from) THEN None
    ELSE Some(format_metadata_comment(Get(md.thread_id), Get(md.from),
                                      Append(md.message_ids, new_message_id)))

OutboundNewBody(body, md, new_message_id) ==
    IF ~IsSome(md.thread_id) \/ ~IsSome(md.from) THEN None
    ELSE LET tid == Get(md.thread_id)
             from == Get(md.from)
             old == format_metadata_comment(tid, from, md.message_ids)
             new == format_metadata_comment(tid, from, Append(md.message_ids, new_message_id))
         IN  Some(Replace(body, old, new))

Logged(e, result, reason, code) ==
    outLog' = Append(outLog, [event |-> e, result |-> result, reason |-> reason,
                              exit |-> code])

\* github_to_email.main for event e: the skip policy, then process_comment.
\* The issue body, title and labels are those of the event payload.
OutboundRun(e) ==
    /\ e \in pending
    /\ pending' = pending \ {e}
    /\ \E ev \in {events[e]} :
       \E md \in {parse_metadata_from_issue_body(ev.issue.body)},
          customer_bot_username \in {BotLogin, <<>>}, sendOk, writeOk \in BOOLEAN :
          \E reason \in {should_skip_comment(ev, customer_bot_username)},
             nameFault \in {Failed(customer_bot_username # <<>>)} :
                  IF reason # ""
                  THEN /\ Logged(e, "skipped", reason, 0)
                       /\ sendOk /\ writeOk /\ Fault(nameFault)
                       /\ UNCHANGED <<issues, sent, gen>>
                  ELSE IF ~IsSome(md)
                  THEN /\ Logged(e, "failed", "no metadata", 1)
                       /\ sendOk /\ writeOk /\ Fault(nameFault)
                       /\ UNCHANGED <<issues, sent, gen>>
                  ELSE IF ~IsSome(Get(md).from) \/ Get(Get(md).from) = <<>>
                  THEN /\ Logged(e, "failed", "no customer email", 1)
                       /\ sendOk /\ writeOk /\ Fault(nameFault)
                       /\ UNCHANGED <<issues, sent, gen>>
                  ELSE /\ gen < Len(GenTokens)
                       /\ gen' = gen + 1
                       /\ LET message_ids == Get(md).message_ids
                              new_message_id == generate_message_id(gen + 1)
                              new_body == IF sendOk
                                          THEN OutboundNewBody(ev.issue.body, Get(md),
                                                               new_message_id)
                                          ELSE None
                              mail == [to |-> Get(Get(md).from),
                                       subject |-> <<"Re:", SP>> \o ev.issue.title,
                                       body |-> ev.comment.body,
                                       in_reply_to |-> IF message_ids # <<>>
                                                       THEN message_ids[Len(message_ids)]
                                                       ELSE <<>>,
                                       references |-> message_ids,
                                       message_id |-> new_message_id,
                                       event |-> e]
                          IN  IF ~sendOk
                              THEN \* send_email returned False
                                   /\ Logged(e, "failed", "send failed", 1)
                                   /\ writeOk /\ Fault(nameFault + 1)
                                   /\ UNCHANGED <<issues, sent>>
                              ELSE /\ sent' = Append(sent, mail)
                                   /\ Logged(e, "sent", "", 0)
                                   /\ \E nb \in {new_body} :
                                         /\ IsSome(nb) \/ writeOk
                                         /\ Fault(nameFault + Failed(writeOk))
                                         /\ issues' = IF IsSome(nb) /\ writeOk
                                                       THEN [issues EXCEPT
                                                               ![ev.issue.number].body = Get(nb)]
                                                       ELSE issues
    /\ UNCHANGED <<mailbox, comments, events, edits, inboundVars>>
    /\ UNCHANGED call

(***************************************************************************)
(* The system                                                              *)
(***************************************************************************)

Next ==
    \/ \E m \in Mails : Deliver(m)
    \/ \E n \in IssueNumbers : CloseIssue(n)
    \/ \E n \in IssueNumbers : Unlabel(n)
    \/ \E n \in IssueNumbers, p \in Posts : PostComment(n, p.body, p.type)
    \/ InboundStart
    \/ Resolve
    \/ GetIssue
    \/ Reopen
    \/ Comment
    \/ UpdateMeta
    \/ Create
    \/ InboundExit
    \/ \E e \in pending : OutboundRun(e)

Spec == Init /\ [][Next]_vars

(***************************************************************************)
(* The functions of utils.py and the two update_issue_metadata functions,  *)
(* applied on their own to arguments drawn from bounded sets               *)
(***************************************************************************)

\* The longest token list an argument holds.
MaxIds == 2

\* A Message-ID whose right side is a domain literal (RFC 5322 no-fold-literal).
BracketToken == <<"<m5@", "[", "10.0.0.1", "]", ">">>

CodecThreads == {T1, T2, NoToken, BracketToken}
CodecAddrs == {<<"jane@x">>, <<"bob@y">>, <<>>}
CodecTokens == {T1, T2, T3, BracketToken}
TokenLists(S) == UNION {[1..n -> S] : n \in 0..MaxIds}

\* full_body of create_new_issue around a block, for a mail without attachments.
Surrounded(block) == sanitize_email_body(MarkupBody) \o <<NL, NL>> \o block

CodecCalls ==
    {[fn |-> "codec", thread_id |-> t, from_email |-> a, message_ids |-> ids,
      done |-> FALSE, res |-> None] :
        t \in CodecThreads, a \in CodecAddrs, ids \in TokenLists(CodecTokens)}

\* What a person wrote behind the block of an issue body.
AgentNote == <<NL, NL, "escalated", SP, "to", SP, "tier", SP, "2">>
\* A body whose block a person reformatted (two spaces behind "from:"): it
\* decodes, but it is not the text format_metadata_comment writes.
BodyReformatted ==
    <<"help", NL, NL>> \o MetaOpen \o <<NL, "thread_id:", SP>> \o T1
        \o <<NL, "from:", SP, SP, "jane@x", NL, "message_ids:", SP>> \o JsonDumps(<<T1>>)
        \o <<NL>> \o MetaClose
\* A body without block.
BodyPlain == <<"printer", SP, "on", SP, "fire">>

AppendBodies ==
    {Surrounded(format_metadata_comment(T1, <<"jane@x">>, ids)) \o note :
        ids \in TokenLists({T1, T2, T3}), note \in {<<>>, AgentNote}}
      \cup {BodyReformatted, BodyPlain}

AppendCalls ==
    {[fn |-> "append", body |-> b, new_message_id |-> t, done |-> FALSE, res |-> None] :
        b \in AppendBodies, t \in {T1, T2, T3}}

\* The longest attachment list an argument holds.
MaxAtts == 3

Photo == [filename |-> <<"cat.jpg">>, content_type |-> "image/jpeg", size |-> 100]
Archive == [filename |-> <<"logs.zip">>, content_type |-> "application/zip", size |-> 4096]
\* The lists of different attachments, of every length up to MaxAtts.
AttachmentLists ==
    UNION {{l \in [1..n -> {Picture, Photo, Report, Archive}] :
               \A i, j \in 1..n : l[i] = l[j] => i = j} : n \in 0..MaxAtts}

\* One call per attachment list and per pattern of upload outcomes.
AttachmentCalls ==
    UNION {{[fn |-> "attachments", attachments |-> l, issue_number |-> 7, up |-> u,
             done |-> FALSE, res |-> None] : u \in Uploads([attachments |-> l])} :
           l \in AttachmentLists}

\* Subjects with and without tags and reply prefixes, and issue numbers of
\* one to five digits.
TitleSubjects ==
    {PlainSubject, TaggedSubject(42), <<>>,
     <<"Re:", SP, "Re:", SP, "x">>,
     <<"Re:", SP, "Fwd:", SP, "RE:", SP, "y">>,
     <<"FWD:", SP, "[GH-", "1", "]", "Re:", SP, "x">>,
     <<"[GH-", "[GH-", "1", "]", "2", "]">>,
     <<"fw:", "x">>,
     <<"no", SP, "[", "tag", "]">>}
TitleNumbers == {1, 7, 42, 12345}

TitleCalls ==
    {[fn |-> "title", issue_number |-> n, subject |-> subj, done |-> FALSE, res |-> None] :
        n \in TitleNumbers, subj \in TitleSubjects}

\* A block as format_metadata_comment writes it, but for the text behind
\* "message_ids:", which a person or another program wrote.
BlockWithList(thread_id, from_email, list) ==
    MetaOpen \o <<NL, "thread_id:", SP>> \o thread_id
             \o <<NL, "from:", SP>> \o from_email
             \o <<NL, "message_ids:", SP>> \o list
             \o <<NL>> \o MetaClose

\* n opening brackets and one closing bracket.
DeepList(n) == [k \in 1..n |-> "["] \o <<"]">>

\* Token lists that are not valid JSON: a bare word in brackets, no closing
\* bracket, a trailing comma, a token without quotes, no list at all, a quote
\* that is not closed, a list that holds the end of an HTML comment, two
\* strings without comma, nested arrays that are not closed.
MalformedLists ==
    {<<"[", "oops", "]">>,
     <<"[", QUOTE>> \o T1 \o <<QUOTE>>,
     <<"[", QUOTE>> \o T1 \o <<QUOTE, ",", "]">>,
     <<"[">> \o T1 \o <<"]">>,
     <<"none">>,
     <<"[", QUOTE>> \o T1 \o <<"]">>,
     <<"[", QUOTE, "a", SP, "--", ">", SP, "b", QUOTE, "]">>,
     <<"[", QUOTE>> \o T1 \o <<QUOTE, SP, QUOTE>> \o T2 \o <<QUOTE, "]">>}
      \cup {DeepList(n) : n \in 2..(RecursionLimit + 2)}

DecodeCalls ==
    {[fn |-> "decode", thread_id |-> t, from_email |-> a, list |-> l,
      body |-> Surrounded(BlockWithList(t, a, l)) \o note, done |-> FALSE, res |-> None] :
        t \in {T1, T2}, a \in {<<"jane@x">>, <<"bob@y">>}, l \in MalformedLists,
        note \in {<<>>, AgentNote}}

\* Text a sender wrote to look like a metadata block.
ForgedBlock ==
    MetaOpen \o <<SP, "thread_id:", SP, "evil@z", SP, "from:", SP, "eve@z", SP>> \o MetaClose
\* An attachment whose file name is that text.
Forged == [filename |-> ForgedBlock \o <<".txt">>, content_type |-> "text/plain", size |-> 512]

\* Mails of an ordinary sender with an ordinary Message-ID, whose plain body,
\* HTML body, subject and attachment names are whatever the sender chose.
CreateMails ==
    {Mail(T1, subject, Jane, body, html, NoToken, <<>>, atts) :
        subject \in {PlainSubject, ForgedBlock},
        body \in {<<>>, <<"help">>, ForgedBlock},
        html \in {MarkupBody, ForgedBlock},
        atts \in {<<>>, <<Report>>, <<Forged>>, <<Picture, Forged>>}}

CreateCalls ==
    UNION {{[fn |-> "create", msg |-> m, issue_number |-> 7, up |-> u,
             done |-> FALSE, res |-> None] : u \in Uploads(m)} : m \in CreateMails}

\* The longest search result an argument holds.
MaxFound == 3

\* issue['body'] of an item of the search result: None for an issue without
\* description (JSON null), else Some(text).  The texts: no block, empty, and
\* blocks of create_new_issue with different token lists.
FoundBodies ==
    {None, Some(<<>>), Some(<<"printer", SP, "on", SP, "fire">>),
     Some(Surrounded(format_metadata_comment(T1, <<"jane@x">>, <<T1>>))),
     Some(Surrounded(format_metadata_comment(T2, <<"bob@y">>, <<T2, T3>>))),
     Some(Surrounded(format_metadata_comment(T4, <<"jane@x">>, <<T4, T1>>)))}

\* Mails without subject tag: a reply to T1, one that only lists T3 among its
\* References, and one without threading headers.
FindMails ==
    {Mail(T4, <<"Re:", SP, "Login", SP, "issue">>, <<"Jane", SP, "<", "jane@x", ">">>,
          <<"thanks">>, <<>>, T1, <<T1>>, <<>>),
     Mail(T4, <<"Re:", SP, "Bug">>, <<"bob@y">>, <<"thanks">>, <<>>, <<>>, <<T2, T3>>, <<>>),
     Mail(T4, <<"Login", SP, "issue">>, <<"bob@y">>, <<"hello">>, <<>>, <<>>, <<>>, <<>>)}

FindCalls ==
    UNION {{[fn |-> "find", msg |-> m, found |-> f, done |-> FALSE, res |-> None] :
              m \in FindMails, f \in [1..n -> FoundBodies]} : n \in 0..MaxFound}

FnInit ==
    SysInit /\ call \in CodecCalls \cup AppendCalls \cup AttachmentCalls \cup TitleCalls
                           \cup DecodeCalls \cup CreateCalls \cup FindCalls

\* parse_metadata_from_issue_body(format_metadata_comment(...)), on the block
\* alone and on the block inside an issue body.
ApplyCodec ==
    /\ call.fn = "codec" /\ ~call.done
    /\ \E block \in {format_metadata_comment(call.thread_id, call.from_email,
                                             call.message_ids)} :
          call' = [call EXCEPT !.done = TRUE,
                               !.res = [bare |-> parse_metadata_from_issue_body(block),
                                        embedded |-> parse_metadata_from_issue_body(
                                                         Surrounded(block))]]
    /\ UNCHANGED <<mailbox, trackerVars, outboundVars, inboundVars, edits, faults>>

\* The two update_issue_metadata functions on the same body and token: the
\* body each passes to github.update_issue (None: no call).  process_comment
\* calls the outbound one only with the metadata it decoded from the body.
ApplyAppend ==
    /\ call.fn = "append" /\ ~call.done
    /\ \E md \in {parse_metadata_from_issue_body(call.body)} :
          call' = [call EXCEPT !.done = TRUE,
                               !.res = [inbound |-> InboundNewBody(call.body,
                                                                   call.new_message_id),
                                        outbound |-> IF IsSome(md)
                                                     THEN OutboundNewBody(call.body, Get(md),
                                                              call.new_message_id)
                                                     ELSE None]]
    /\ UNCHANGED <<mailbox, trackerVars, outboundVars, inboundVars, edits, faults>>

\* process_attachments on a list, with the upload outcomes of the call.
ApplyAttachments ==
    /\ call.fn = "attachments" /\ ~call.done
    /\ call' = [call EXCEPT !.done = TRUE,
                            !.res = process_attachments(call.attachments, call.issue_number,
                                                        call.up[1], call.up[2])]
    /\ UNCHANGED <<mailbox, trackerVars, outboundVars, inboundVars, edits, faults>>

\* format_issue_title, and extract_gh_number_from_subject on the title, on the
\* title behind a reply prefix, and on the subject itself.
ApplyTitle ==
    /\ call.fn = "title" /\ ~call.done
    /\ \E title \in {format_issue_title(call.issue_number, call.subject)} :
          call' = [call EXCEPT
                     !.done = TRUE,
                     !.res = [title |-> title,
                              tag |-> extract_gh_number_from_subject(title),
                              reply_tag |-> extract_gh_number_from_subject(
                                                <<"Re:", SP>> \o title),
                              subject_tag |-> extract_gh_number_from_subject(
                                                  call.subject)]]
    /\ UNCHANGED <<mailbox, trackerVars, outboundVars, inboundVars, edits, faults>>

\* parse_metadata_from_issue_body on a body whose token list is malformed.
ApplyDecode ==
    /\ call.fn = "decode" /\ ~call.done
    /\ call' = [call EXCEPT !.done = TRUE,
                            !.res = IF parse_metadata_raises(call.body)
                                    THEN [raised |-> TRUE, value |-> None]
                                    ELSE [raised |-> FALSE,
                                          value |-> parse_metadata_from_issue_body(call.body)]]
    /\ UNCHANGED <<mailbox, trackerVars, outboundVars, inboundVars, edits, faults>>

\* create_new_issue up to github.create_issue: the transformed mail text, the
\* title and the body of the new issue, and what the body decodes to.
ApplyCreate ==
    /\ call.fn = "create" /\ ~call.done
    /\ \E body \in {NewIssueBody(call.msg, parse_email_address(call.msg.from_addr),
                                   call.issue_number, call.up[1], call.up[2])} :
          call' = [call EXCEPT
                     !.done = TRUE,
                     !.res = [clean_body |-> sanitize_email_body(BodyText(call.msg)),
                              title |-> format_issue_title(call.issue_number,
                                                           call.msg.subject),
                              body |-> body,
                              decoded |-> parse_metadata_from_issue_body(body)]]
    /\ UNCHANGED <<mailbox, trackerVars, outboundVars, inboundVars, edits, faults>>

\* The loop of find_issue_by_thread over the bodies of a search result, from
\* item k on: the place of the first item that matches (0: None is returned).
\* parse_metadata_from_issue_body(None) raises TypeError out of re.search, and
\* find_issue_by_thread has no try around it.
RECURSIVE find_issue_loop(_, _, _)
find_issue_loop(msg, found, k) ==
    IF k > Len(found) THEN [raised |-> FALSE, place |-> 0]
    ELSE IF found[k] = None THEN [raised |-> TRUE, place |-> 0]
    ELSE IF ThreadMatches(msg, Get(found[k])) THEN [raised |-> FALSE, place |-> k]
    ELSE find_issue_loop(msg, found, k + 1)

\* find_issue_by_thread on a search result.
ApplyFind ==
    /\ call.fn = "find" /\ ~call.done
    /\ call' = [call EXCEPT !.done = TRUE,
                            !.res = find_issue_loop(call.msg, call.found, 1)]
    /\ UNCHANGED <<mailbox, trackerVars, outboundVars, inboundVars, edits, faults>>

FnNext ==
    \/ ApplyCodec \/ ApplyAppend \/ ApplyAttachments \/ ApplyTitle \/ ApplyDecode
    \/ ApplyCreate \/ ApplyFind

FnSpec == FnInit /\ [][FnNext]_vars

(***************************************************************************)
(* One outbound run on its own: a comment event on an issue whose body was *)
(* written by create_new_issue or by a person                              *)
(***************************************************************************)

\* An issue a person opened by hand: no metadata block.
BodyNoBlock == <<"printer", SP, "on", SP, "fire">>
\* A block a person edited: the from line is gone.
BodyNoFromLine ==
    <<"help", NL, NL>> \o MetaOpen \o <<NL, "thread_id:", SP>> \o T1
        \o <<NL, "message_ids:", SP>> \o JsonDumps(<<T1>>) \o <<NL>> \o MetaClose
\* What create_new_issue writes for a mail without From header
\* (parse_email_address('') is '').
BodyEmptyFrom == Surrounded(format_metadata_comment(T1, parse_email_address(<<>>), <<T1>>))
\* What create_new_issue writes for MailNew1, and the same after one reply.
BodyOneToken == Surrounded(format_metadata_comment(T1, parse_email_address(Jane), <<T1>>))
BodyTwoTokens == Surrounded(format_metadata_comment(T1, parse_email_address(Jane), <<T1, T3>>))

OutboundBodies == {BodyNoBlock, BodyNoFromLine, BodyEmptyFrom, BodyOneToken, BodyTwoTokens}

\* The tracker holds one issue and one comment on it, whose event is pending.
OutboundInit ==
    /\ mailbox = <<>>
    /\ \E body \in OutboundBodies, labels \in {{HelpdeskLabel}, {}},
          state \in {"open", "closed"}, p \in Posts :
          LET issue == [state |-> state, title |-> format_issue_title(1, PlainSubject),
                        body |-> body, labels |-> labels, origin |-> 0]
              c == [issue |-> 1, body |-> p.body, user_type |-> p.type,
                    origin |-> "tracker"]
          IN  /\ issues = <<issue>>
              /\ comments = <<c>>
              /\ events = <<[issue |-> [number |-> 1, title |-> issue.title,
                                        body |-> issue.body, labels |-> issue.labels],
                             comment |-> c]>>
    /\ pending = {1}
    /\ sent = <<>>
    /\ outLog = <<>>
    /\ gen = 0
    /\ edits = 0
    /\ faults = 0
    /\ pc = "idle"
    /\ batch = <<>>
    /\ idx = 0
    /\ processed_count = 0
    /\ failed_count = 0
    /\ exit_status = "none"
    /\ unit = NoUnit
    /\ unitLog = <<>>
    /\ reopenLog = <<>>
    /\ runs = 0
    /\ call = NoCall

OutboundNext == \E e \in pending : OutboundRun(e)

OutboundSpec == OutboundInit /\ [][OutboundNext]_vars

(***************************************************************************)
(* Overlapping runs on one conversation: each run reads the issue (inbound: *)
(* github.get_issue in handle_reply; outbound: the issue of the event       *)
(* payload), and later its update_issue_metadata writes the body it made    *)
(* from what it read.  Anything may happen at the tracker in between.       *)
(***************************************************************************)

MaxOverlap == 2

\* What create_new_issue writes for a mail without Message-ID header.
BodyEmptyThread == Surrounded(format_metadata_comment(<<>>, parse_email_address(Jane), <<>>))

OverlapBodies ==
    {BodyOneToken, BodyTwoTokens \o AgentNote, BodyEmptyFrom, BodyReformatted, BodyEmptyThread}

\* The runs: the direction and the token each one appends (the Message-ID of
\* the reply it handles, or the one it generated for the notification).
OverlapRuns ==
    [1..MaxOverlap -> [kind : {"inbound", "outbound"},
                       new_message_id : {T3, T4, BracketToken},
                       phase : {"start"}, issue : {None}, wrote : {FALSE}]]

OverlapInit ==
    /\ mailbox = <<>>
    /\ \E body \in OverlapBodies, rs \in OverlapRuns :
          /\ issues = <<[state |-> "open", title |-> format_issue_title(1, PlainSubject),
                         body |-> body, labels |-> {HelpdeskLabel}, origin |-> 0]>>
          /\ call = [fn |-> "overlap", first |-> body, runs |-> rs]
    /\ comments = <<>>
    /\ events = <<>>
    /\ pending = {}
    /\ sent = <<>>
    /\ outLog = <<>>
    /\ gen = 0
    /\ edits = 0
    /\ faults = 0
    /\ pc = "idle"
    /\ batch = <<>>
    /\ idx = 0
    /\ processed_count = 0
    /\ failed_count = 0
    /\ exit_status = "none"
    /\ unit = NoUnit
    /\ unitLog = <<>>
    /\ reopenLog = <<>>
    /\ runs = 0

\* Run i reads the issue.
OverlapRead(i) ==
    /\ call.fn = "overlap" /\ call.runs[i].phase = "start"
    /\ call' = [call EXCEPT !.runs[i].phase = "read",
                            !.runs[i].issue = Some(issues[1])]
    /\ UNCHANGED <<mailbox, trackerVars, outboundVars, inboundVars, edits, faults>>

\* The body run r passes to github.update_issue (None: no call).
OverlapNewBody(r) ==
    LET body == Get(r.issue).body
        md == parse_metadata_from_issue_body(body)
    IN  IF r.kind = "inbound" THEN InboundNewBody(body, r.new_message_id)
        ELSE IF IsSome(md) THEN OutboundNewBody(body, Get(md), r.new_message_id)
        ELSE None

\* Run i calls update_issue_metadata with the issue it read.
OverlapWrite(i) ==
    /\ call.fn = "overlap" /\ call.runs[i].phase = "read"
    /\ \E new_body \in {OverlapNewBody(call.runs[i])} :
           IF IsSome(new_body)
           THEN \E writeOk \in BOOLEAN :
                   /\ Fault(Failed(writeOk))
                   /\ issues' = IF writeOk
                                 THEN [issues EXCEPT ![1].body = Get(new_body)]
                                 ELSE issues
                   /\ call' = [call EXCEPT !.runs[i].phase = "done",
                                           !.runs[i].wrote = writeOk]
           ELSE /\ Fault(0) /\ UNCHANGED issues
                /\ call' = [call EXCEPT !.runs[i].phase = "done"]
    /\ UNCHANGED <<mailbox, comments, events, pending, outboundVars, inboundVars, edits>>

OverlapNext == \E i \in 1..MaxOverlap : OverlapRead(i) \/ OverlapWrite(i)

OverlapSpec == OverlapInit /\ [][OverlapNext]_vars

(***************************************************************************)
(* Inbound runs on a tracker that already holds two conversations, one of  *)
(* which has sent a notification: the state after MailNew1 and MailNew2    *)
(* were turned into issues 1 and 2, an agent's comment on one of them was  *)
(* mailed to the customer, and the customer's answer is in the mailbox.    *)
(* The logs start empty: the history begins with the answer.               *)
(***************************************************************************)

\* The issue create_new_issue made of msg: number is the assigned number,
\* predicted the one get_next_issue_number returned, titleOk the outcome of
\* the title update.
CreatedIssue(msg, number, predicted, titleOk, state) ==
    [state |-> state,
     title |-> CorrectedTitle(number, predicted, msg.subject, titleOk),
     body |-> NewIssueBody(msg, parse_email_address(msg.from_addr), predicted, <<>>, <<>>),
     labels |-> {HelpdeskLabel, <<"from:">> \o parse_email_address(msg.from_addr)},
     origin |-> 0]

\* The mail process_comment sends for a comment on the issue of the payload.
NotificationFor(payload, comment, new_message_id, e) ==
    LET md == Get(parse_metadata_from_issue_body(payload.body))
    IN  [to |-> Get(md.from),
         subject |-> <<"Re:", SP>> \o payload.title,
         body |-> comment.body,
         in_reply_to |-> md.message_ids[Len(md.message_ids)],
         references |-> md.message_ids,
         message_id |-> new_message_id,
         event |-> e]

\* The customer's answer to a notification: the mail client puts "Re: " before
\* the subject and the notification's Message-ID into In-Reply-To and
\* References; or the customer wrote a subject of their own.
AnswerTo(note, from, id, ownSubject) ==
    Mail(id, IF ownSubject THEN <<"another", SP, "question">>
             ELSE <<"Re:", SP>> \o note.subject,
         from, <<"thanks">>, <<>>, note.message_id,
         Append(note.references, note.message_id), <<>>)

ReplyInit ==
    /\ \E s1, s2 \in {"open", "closed"}, titled \in {<<2, TRUE>>, <<1, TRUE>>, <<1, FALSE>>},
          k \in 1..2, stored, ownSubject \in BOOLEAN :
          LET made == <<CreatedIssue(MailNew1, 1, 1, TRUE, s1),
                        CreatedIssue(MailNew2, 2, titled[1], titled[2], s2)>>
              payload == [number |-> k, title |-> made[k].title, body |-> made[k].body,
                          labels |-> made[k].labels]
              c == [issue |-> k, body |-> PostMention, user_type |-> "User",
                    origin |-> "tracker"]
              note == NotificationFor(payload, c, generate_message_id(1), 1)
              appended == OutboundNewBody(payload.body,
                                          Get(parse_metadata_from_issue_body(payload.body)),
                                          note.message_id)
          IN  /\ issues = IF stored THEN [made EXCEPT ![k].body = Get(appended)] ELSE made
              /\ comments = <<c>>
              /\ events = <<[issue |-> payload, comment |-> c]>>
              /\ sent = <<note>>
              /\ mailbox = <<[msg |-> AnswerTo(note, IF k = 1 THEN Jane ELSE Bob, T3,
                                               ownSubject),
                              seen |-> FALSE]>>
    /\ pending = {}
    /\ outLog = <<[event |-> 1, result |-> "sent", reason |-> "", exit |-> 0]>>
    /\ gen = 1
    /\ edits = 0
    /\ faults = 0
    /\ pc = "idle"
    /\ batch = <<>>
    /\ idx = 0
    /\ processed_count = 0
    /\ failed_count = 0
    /\ exit_status = "none"
    /\ unit = NoUnit
    /\ unitLog = <<>>
    /\ reopenLog = <<>>
    /\ runs = 0
    /\ call = NoCall

ReplyNext ==
    \/ InboundStart
    \/ Resolve
    \/ GetIssue
    \/ Reopen
    \/ Comment
    \/ UpdateMeta
    \/ Create
    \/ InboundExit

ReplySpec == ReplyInit /\ [][ReplyNext]_vars

(***************************************************************************)
(* One inbound batch with two messages for the same conversation: the      *)
(* inbound synchronizer alone, started with a conversation made from a      *)
(* customer's mail and a mailbox that holds two unseen messages.            *)
(***************************************************************************)

\* A second answer that carries the tag of conversation 1.
MailTag1Again == Mail(T2, TaggedSubject(1), Jane, <<"more">>, <<>>, T4, <<T1, T4>>, <<>>)

\* The messages of the batch: an answer by its headers, two answers by the
\* tag of their subject, and a mail that opens a conversation of its own.
BatchMails == {MailReply, MailTag1, MailTag1Again, MailNew2}

BatchInit ==
    /\ \E base \in {MailNew1, MailNoId}, s1 \in {"open", "closed"}, a, b \in BatchMails :
          /\ a # b
          /\ issues = <<CreatedIssue(base, 1, 1, TRUE, s1)>>
          /\ mailbox = <<[msg |-> a, seen |-> FALSE], [msg |-> b, seen |-> FALSE]>>
    /\ comments = <<>>
    /\ events = <<>>
    /\ sent = <<>>
    /\ pending = {}
    /\ outLog = <<>>
    /\ gen = 0
    /\ edits = 0
    /\ faults = 0
    /\ pc = "idle"
    /\ batch = <<>>
    /\ idx = 0
    /\ processed_count = 0
    /\ failed_count = 0
    /\ exit_status = "none"
    /\ unit = NoUnit
    /\ unitLog = <<>>
    /\ reopenLog = <<>>
    /\ runs = 0
    /\ call = NoCall

BatchNext ==
    \/ InboundStart
    \/ Resolve
    \/ GetIssue
    \/ Reopen
    \/ Comment
    \/ UpdateMeta
    \/ Create
    \/ InboundExit

BatchSpec == BatchInit /\ [][BatchNext]_vars

(***************************************************************************)
(* The attachment cleanup (cleanup_attachments.py), run on its own: the     *)
(* tracker and the entries of the folder attachments/ are its inputs, and   *)
(* its locals are the fields of `call`.                                     *)
(***************************************************************************)

\* Time is counted in half days, so that "closed exactly DAYS_OLD days ago"
\* and "closed half a day earlier" are different instants.
DayLength == 2
\* datetime.now(timezone.utc)
Now == 8
\* The largest DAYS_OLD, and the most entries attachments/ has.
MaxDaysOld == 2
MaxEntries == 2

\* An issue as the tracker reports it: closed_at is null while it is open.
CleanupIssue(helpdesk, state, closed_at) ==
    [labels |-> IF helpdesk THEN {HelpdeskLabel} ELSE {}, state |-> state,
     closed_at |-> closed_at]

CleanupIssues ==
    {CleanupIssue(TRUE, "open", None), CleanupIssue(FALSE, "closed", Some(2))}
        \cup {CleanupIssue(TRUE, "closed", Some(t)) : t \in {2, 4, 6}}

\* The trackers: issues 1 and 2.
CleanupTrackers == [1..2 -> CleanupIssues]

\* The name of the folder of an issue, given the numeral.
FolderName(numeral) == <<"issue", "-">> \o numeral

\* The entries attachments/ may hold: folders of issues 1, 2 and 3 (the
\* tracker has no issue 3), folders whose numeral has a leading zero or a
\* sign, folders that are not named after an issue, and a file.
DirEntries ==
    {[name |-> FolderName(n), is_dir |-> TRUE] :
        n \in {<<"1">>, <<"2">>, <<"3">>, <<"0", "1">>, <<"+", "2">>, <<"0">>, <<"x">>,
               <<"1", "-", "old">>}}
        \cup {[name |-> FolderName(<<"2">>), is_dir |-> FALSE]}

\* attachments_dir.iterdir(): entries with different names, in any order;
\* empty when attachments/ does not exist.
Listings ==
    UNION {{l \in [1..n -> DirEntries] :
               \A i, j \in 1..n : i # j => l[i].name # l[j].name} : n \in 0..MaxEntries}

\* os.getenv('DRY_RUN', 'false'): the variable's value, 'false' when unset.
DryRunEnv == {"false", "true", "True"}
\* str.lower() of the variable's value
LowerEnv(str) == IF str = "True" THEN "true" ELSE str

\* s.split('-')
RECURSIVE SplitDash(_)
SplitDash(s) ==
    LET dashes == {k \in 1..Len(s) : s[k] = "-"}
    IN  IF dashes = {} THEN <<s>>
        ELSE <<SubSeq(s, 1, Min(dashes) - 1)>>
                 \o SplitDash(SubSeq(s, Min(dashes) + 1, Len(s)))

\* int(text): the value of an optional sign and one or more digits, None for
\* a ValueError.
PyInt(text) ==
    LET ds == IF Len(text) > 0 /\ text[1] = "+" THEN Tail(text) ELSE text
    IN  IF Len(ds) > 0 /\ \A k \in 1..Len(ds) : IsDigit(ds[k])
        THEN Some(ParseInt(ds)) ELSE None

\* extract_issue_number_from_folder(folder), on folder.name.
extract_issue_number_from_folder(name) ==
    LET parts == SplitDash(name)
    IN  IF Len(parts) = 2 /\ parts[1] = <<"issue">> THEN PyInt(parts[2]) ELSE None

\* github.search_issues("label:helpdesk is:closed"): number and closed_at of
\* the items; nothing when the request failed.
SearchClosedHelpdesk(tracker, searchOk) ==
    IF searchOk
    THEN {[number |-> n, closed_at |-> tracker[n].closed_at] :
             n \in {m \in DOMAIN tracker : /\ HelpdeskLabel \in tracker[m].labels
                                           /\ tracker[m].state = "closed"}}
    ELSE {}

\* The same with `closed_at <= cutoff_date`.
get_closed_issues_older_than_AtLeast(found, days) ==
    {i.number : i \in {f \in found : /\ f.closed_at # None
                                     /\ Get(f.closed_at) <= Now - days * DayLength}}

\* get_closed_issues_older_than: the numbers of the items that have a
\* closed_at before the cutoff date, now minus `days` days.
get_closed_issues_older_than(found, days) ==
    {i.number : i \in {f \in found : /\ f.closed_at # None
                                     /\ Get(f.closed_at) < Now - days * DayLength}}

\* get_attachment_folders: the directories whose name starts with 'issue-'.
get_attachment_folders(listing) ==
    LET IsIssueFolder(e) == e.is_dir /\ StartsAt(e.name, 1, <<"issue", "-">>)
    IN  SelectSeq(listing, IsIssueFolder)

\* cleanup_attachments: folders_to_delete, the names of the folders whose
\* number is truthy and in issue_numbers_to_clean.
folders_to_delete(folders, issue_numbers_to_clean) ==
    LET Matches(e) ==
            \E issue_number \in {extract_issue_number_from_folder(e.name)} :
                /\ Truthy(issue_number)
                /\ Get(issue_number) \in issue_numbers_to_clean
        matched == SelectSeq(folders, Matches)
    IN  [k \in 1..Len(matched) |-> matched[k].name]

\* if dry_run_env: dry_run = True
is_dry_run(dry_run, env) == dry_run \/ LowerEnv(env) = "true"

CleanupCalls ==
    {[fn |-> "cleanup", tracker |-> t, listing |-> l, days_old |-> d, dry_run |-> a,
      env |-> e, pc |-> "plan", todo |-> <<>>, k |-> 0,
      disk |-> {l[i].name : i \in 1..Len(l)}, deleted |-> <<>>, failed |-> <<>>,
      outcome |-> "none"] :
        t \in CleanupTrackers, l \in Listings, d \in 0..MaxDaysOld, a \in BOOLEAN,
        e \in DryRunEnv}

CleanupInit == SysInit /\ call \in CleanupCalls

\* cleanup_attachments up to the deletion loop: the search, the listing, the
\* choice of the folders, their sizes (get_folder_size raises when a file
\* cannot be read: the run ends there), the early returns and the dry run.
CleanupPlan ==
    /\ call.fn = "cleanup" /\ call.pc = "plan"
    /\ \E searchOk, sizeOk \in BOOLEAN :
       \E old \in {get_closed_issues_older_than(
                       SearchClosedHelpdesk(call.tracker, searchOk), call.days_old)},
          folders \in {get_attachment_folders(call.listing)} :
       \E todo \in {folders_to_delete(folders, old)} :
           call' = IF old = {}
                   THEN [call EXCEPT !.pc = "done", !.outcome = "no issues"]
                   ELSE IF folders = <<>>
                   THEN [call EXCEPT !.pc = "done", !.outcome = "no folders"]
                   ELSE IF todo = <<>>
                   THEN [call EXCEPT !.pc = "done", !.outcome = "no match"]
                   ELSE IF ~sizeOk
                   THEN [call EXCEPT !.pc = "done", !.outcome = "raised"]
                   ELSE IF is_dry_run(call.dry_run, call.env)
                   THEN [call EXCEPT !.pc = "done", !.outcome = "dry run", !.todo = todo]
                   ELSE [call EXCEPT !.pc = "delete", !.todo = todo, !.k = 1]
    /\ UNCHANGED <<mailbox, trackerVars, outboundVars, inboundVars, edits, faults>>

\* One round of the deletion loop: shutil.rmtree removes the folder, or
\* raises and the folder stays; the loop goes on with the next folder.
CleanupDelete ==
    /\ call.fn = "cleanup" /\ call.pc = "delete"
    /\ \E removed \in BOOLEAN, name \in {call.todo[call.k]} :
          call' = [call EXCEPT
                      !.disk = IF removed THEN call.disk \ {name} ELSE call.disk,
                      !.deleted = IF removed THEN Append(call.deleted, name)
                                  ELSE call.deleted,
                      !.failed = IF removed THEN call.failed
                                 ELSE Append(call.failed, name),
                      !.k = call.k + 1,
                      !.pc = IF call.k + 1 > Len(call.todo) THEN "done" ELSE "delete",
                      !.outcome = IF call.k + 1 > Len(call.todo) THEN "complete"
                                  ELSE call.outcome]
    /\ UNCHANGED <<mailbox, trackerVars, outboundVars, inboundVars, edits, faults>>

CleanupNext == CleanupPlan \/ CleanupDelete

CleanupSpec == CleanupInit /\ [][CleanupNext]_vars

(***************************************************************************)
(* Properties                                                              *)
(***************************************************************************)

\* The outbound runs that had comment event e as their input.
RunsOf(e) == {k \in 1..Len(outLog) : outLog[k].event = e}
\* The mails transmitted for comment event e.
MailsOf(e) == {m \in 1..Len(sent) : sent[m].event = e}
\* The literal marker occurs in the text.
HoldsMarker(text) == Contains(text, create_email_marker)

\* C1: for every comment event whose comment body contains the literal marker
\* "<!-- source:email -->", the outbound run skips the comment and transmits no
\* mail, whatever labels the issue carries, whoever wrote the comment and
\* whatever it mentions.
C1_MarkedCommentNeverSent ==
    \A e \in 1..Len(events) :
        HoldsMarker(events[e].comment.body)
            => /\ MailsOf(e) = {}
               /\ \A k \in RunsOf(e) : outLog[k].result = "skipped"

\* C1's case: an outbound run has skipped a comment that holds the marker and
\* passes every other gate (labelled issue, a person as author, a mention of
\* the synchronizer's login that was looked up).
C1_Witness ==
    \E k \in 1..Len(outLog) :
        LET ev == events[outLog[k].event]
        IN  /\ HoldsMarker(ev.comment.body)
            /\ HelpdeskLabel \in ev.issue.labels
            /\ ev.comment.user_type = "User"
            /\ mentions_customer_bot(ev.comment.body, BotLogin)
            /\ outLog[k].reason = "Comment originated from email (has marker)"

\* C2: every comment that handle_reply creates from a mail contains the
\* marker, for every mail body and attachment list, and no outbound run on
\* the event of such a comment transmits a mail (no mail -> comment -> mail
\* loop).
C2_MailCommentsMarkedAndNeverSent ==
    \A e \in 1..Len(events) :
        events[e].comment.origin = "mail"
            => /\ HoldsMarker(events[e].comment.body)
               /\ MailsOf(e) = {}
               /\ \A k \in RunsOf(e) : outLog[k].result = "skipped"

\* C2's case: a comment made from a mail that has an attachment, quotes
\* markup and mentions the synchronizer, on a labelled issue, has had its
\* outbound run.
C2_Witness ==
    \E k \in 1..Len(outLog) :
        LET ev == events[outLog[k].event]
        IN  /\ ev.comment.origin = "mail"
            /\ Contains(ev.comment.body, <<"###", SP, "Attached Images", NL>>)
            /\ mentions_customer_bot(ev.comment.body, BotLogin)
            /\ HelpdeskLabel \in ev.issue.labels
            /\ outLog[k].result = "skipped"

\* The finished units of message u, and those of run r.
UnitsOf(u) == {k \in 1..Len(unitLog) : unitLog[k].uid = u}
UnitsOfRun(r) == {k \in 1..Len(unitLog) : unitLog[k].run = r}

\* C3: a message is seen at the Mailbox Service only if its processing
\* reported success: a message whose processing returned False or raised is
\* unseen (unless a later processing of it succeeded), so that the next run
\* fetches it again.
C3_FailedMessageLeftUnseen ==
    \A k \in 1..Len(unitLog) :
        unitLog[k].result # "ok"
            => \/ ~mailbox[unitLog[k].uid].seen
               \/ \E j \in UnitsOf(unitLog[k].uid) : j > k /\ unitLog[j].result = "ok"

\* C4: in a batch of N fetched messages a failed message does not stop the
\* batch.  While the loop runs no exit status is signalled; when the run has
\* ended, every one of the N messages has been processed once, in the
\* batch's order, every successful one is seen, and the exit status is 1
\* exactly when at least one message failed.
C4_FailAtEnd ==
    /\ pc \notin {"idle", "exit"} => exit_status = "none" /\ idx \in 1..Len(batch)
    /\ pc = "exit" => exit_status = "none" /\ idx = Len(batch) + 1
    /\ pc \in {"idle", "exit"} /\ batch # <<>>
          => /\ Cardinality(UnitsOfRun(runs)) = Len(batch)
             /\ \A i \in 1..Len(batch) :
                   \E k \in UnitsOfRun(runs) :
                      /\ unitLog[k].uid = batch[i]
                      /\ k = Len(unitLog) - Len(batch) + i
                      /\ unitLog[k].result = "ok" => mailbox[batch[i]].seen
             /\ processed_count + failed_count = Len(batch)
             /\ failed_count = Cardinality({k \in UnitsOfRun(runs) : unitLog[k].result # "ok"})
             /\ pc = "idle" => exit_status = IF failed_count > 0 THEN 1 ELSE 0

\* C4's case: a run over two messages has ended; the first message failed,
\* the second one was processed with success, and the run signalled 1.
C4_Witness ==
    /\ pc = "idle"
    /\ Len(batch) = 2
    /\ exit_status = 1
    /\ \E k \in UnitsOfRun(runs) :
          /\ unitLog[k].uid = batch[1] /\ unitLog[k].result # "ok"
          /\ unitLog[k + 1].uid = batch[2] /\ unitLog[k + 1].result = "ok"
          /\ mailbox[batch[2]].seen

\* The conversation tag of the subject of message u (None without a tag).
TagOf(u) == extract_gh_number_from_subject(mailbox[u].msg.subject)

\* C5: a message whose subject carries a conversation tag with number n is
\* resolved to conversation n without a search, also when its In-Reply-To or
\* References tokens are stored in another open conversation.
C5_TagResolvesWithoutSearch ==
    \A k \in 1..Len(unitLog) :
        IsSome(TagOf(unitLog[k].uid))
            => /\ unitLog[k].via = "tag"
               /\ unitLog[k].target = Get(TagOf(unitLog[k].uid))
               /\ ~unitLog[k].searched

\* C6: a message without a tag whose In-Reply-To token is stored in exactly
\* one open conversation is resolved to that conversation and becomes a
\* comment on it (when the unit succeeds), not a new conversation.
C6_ReplyResolvesByToken ==
    \A k \in 1..Len(unitLog) :
        ~IsSome(TagOf(unitLog[k].uid)) /\ Cardinality(unitLog[k].irtOpen) = 1
            => /\ unitLog[k].via = "thread"
               /\ unitLog[k].target \in unitLog[k].irtOpen
               /\ unitLog[k].created = 0
               /\ unitLog[k].result = "ok" => unitLog[k].commented

\* C7: whenever a closed conversation is reopened, the message that caused
\* it was resolved by the tag of its subject, never by token matching, also
\* when the conversation is closed on the tracker during the run.
C7_ReopenOnlyByTag ==
    \A k \in 1..Len(reopenLog) :
        reopenLog[k].reopened => reopenLog[k].via = "tag"

\* The step of create_new_issue for the current message.
CreateStep == pc = "create" /\ pc' # "create"
\* The current message has no tag and matches no open conversation.
Unmatched == ~IsSome(TagOf(CurrentUid)) /\ unit.anyOpen = {}
\* The tracker has exactly one more item, and its body contains the metadata
\* block of the current message: thread_id its own token, the parsed sender
\* address, and the one-element token list.
OneItemCreated ==
    /\ Len(issues') = Len(issues) + 1
    /\ SubSeq(issues', 1, Len(issues)) = issues
    /\ Contains(issues'[Len(issues')].body,
                format_metadata_comment(CurrentMsg.message_id,
                                        parse_email_address(CurrentMsg.from_addr),
                                        <<CurrentMsg.message_id>>))
    /\ Occurrences(issues'[Len(issues')].body, MetaOpen) = 1
\* No item is created and the unit fails.
NoItemCreated ==
    /\ issues' = issues
    /\ unitLog'[Len(unitLog')].uid = CurrentUid
    /\ unitLog'[Len(unitLog')].result = "false"

\* C8 (as stated): a message without a tag that matches no open conversation
\* makes the inbound direction create exactly one new item whose body
\* contains the metadata block with thread_id = the message's token, customer
\* address = the parsed sender, message_tokens = the list of that one token.
C8_UnmatchedCreatesOneItem ==
    [][CreateStep /\ Unmatched => OneItemCreated]_vars

\* C8 (amended): create_new_issue either creates exactly one such item, or,
\* when the tracker's createItem fails, creates none and the unit fails.
C8_CreatesOneItemOrFails ==
    [][CreateStep => OneItemCreated \/ NoItemCreated]_vars

\* C8's case: the unit of a message without a tag that matched no open
\* conversation has ended and its item exists.
C8_Witness ==
    \E k \in 1..Len(unitLog) :
        /\ ~IsSome(TagOf(unitLog[k].uid))
        /\ unitLog[k].anyOpen = {}
        /\ unitLog[k].via = "create"
        /\ unitLog[k].created \in IssueNumbers
        /\ issues[unitLog[k].created].origin = unitLog[k].uid
        /\ Cardinality({n \in IssueNumbers : issues[n].origin = unitLog[k].uid}) = 1

\* new is old, or old with one token appended at the end.
SameOrOneAppended(old, new) ==
    \/ new = old
    \/ Len(new) = Len(old) + 1 /\ SubSeq(new, 1, Len(old)) = old

\* C9: for every conversation, every step of the inbound and outbound
\* directions leaves the stored message_tokens list as it was or appends
\* exactly one token at its end: the list never shrinks and never reorders.
C9_TokensAppendOnly ==
    [][\A n \in 1..Len(issues) :
          SameOrOneAppended(StoredTokens(issues[n].body), StoredTokens(issues'[n].body))]_vars

\* encode(decode(body)); <<>> when the body does not decode to the three fields.
Reencoded(body) ==
    LET md == parse_metadata_from_issue_body(body)
    IN  IF IsSome(md) /\ IsSome(Get(md).thread_id) /\ IsSome(Get(md).from)
        THEN format_metadata_comment(Get(Get(md).thread_id), Get(Get(md).from),
                                     Get(md).message_ids)
        ELSE <<>>

\* C10: in every reachable state the body of every conversation that the
\* inbound direction created contains exactly one metadata block, and this
\* block is textually encode(decode(body)).
C10_OneBlockReencodable ==
    \A n \in IssueNumbers :
        /\ Occurrences(issues[n].body, MetaOpen) = 1
        /\ Reencoded(issues[n].body) # <<>>
        /\ Contains(issues[n].body, Reencoded(issues[n].body))

\* The thread id and the customer address a body's metadata block decodes to.
IdentityOf(body) ==
    LET md == parse_metadata_from_issue_body(body)
    IN  IF IsSome(md) THEN <<Get(md).thread_id, Get(md).from>> ELSE None

\* C11: once a conversation's body holds a metadata block, every step of the
\* inbound and of the outbound direction leaves the thread id and the customer
\* address the block decodes to as they were, also when the inbound reply
\* comes from a sender other than the stored customer.
C11_IdentityImmutable ==
    [][\A n \in 1..Len(issues) :
          \/ issues'[n].body = issues[n].body
          \/ IdentityOf(issues[n].body) = None
          \/ IdentityOf(issues'[n].body) = IdentityOf(issues[n].body)]_vars

\* A reply of another sender than the stored customer was added to a
\* conversation and its token stored, and an outbound run has stored its token
\* in the same conversation too; the block still names the first customer.
C11_Witness ==
    \E k \in 1..Len(unitLog), m \in 1..Len(sent) :
        LET u == unitLog[k]
            n == u.target
            msg == mailbox[u.uid].msg
        IN  /\ u.result = "ok" /\ u.commented
            /\ n \in IssueNumbers
            /\ events[sent[m].event].issue.number = n
            /\ InSeq(msg.message_id, StoredTokens(issues[n].body))
            /\ InSeq(sent[m].message_id, StoredTokens(issues[n].body))
            /\ IdentityOf(issues[n].body) # None
            /\ IdentityOf(issues[n].body)[2] # Some(parse_email_address(msg.from_addr))
            /\ IdentityOf(issues[n].body)[2]
                   = Some(parse_email_address(mailbox[issues[n].origin].msg.from_addr))

\* The three fields a metadata block was encoded from.
Triple(t, a, ids) == Some([thread_id |-> Some(t), from |-> Some(a), message_ids |-> ids])

\* C12: for every thread id, address and ordered token list,
\* decode(encode(thread_id, address, tokens)) gives back exactly the three
\* values, on the block alone and on the block embedded in the body the
\* inbound direction produces.
C12_CodecRoundTrip ==
    call.fn = "codec" /\ call.done
        => /\ call.res.bare = Triple(call.thread_id, call.from_email, call.message_ids)
           /\ call.res.embedded = Triple(call.thread_id, call.from_email, call.message_ids)

\* The token list of a body after an update that passed nb to update_issue.
TokensAfter(nb, body) == StoredTokens(IF IsSome(nb) THEN Get(nb) ELSE body)

\* C13: appending a token that is already in message_tokens leaves the list
\* as it is (no duplicate entry), in the inbound and in the outbound metadata
\* update.
C13_AppendIdempotent ==
    call.fn = "append" /\ call.done /\ InSeq(call.new_message_id, StoredTokens(call.body))
        => /\ TokensAfter(call.res.inbound, call.body) = StoredTokens(call.body)
           /\ TokensAfter(call.res.outbound, call.body) = StoredTokens(call.body)

\* C14: an item without the label helpdesk is ignored by both directions: no
\* mail is sent for a comment made on it, and no step of an inbound run (for
\* a message with or without a tag that names it) adds a comment to it,
\* reopens it or changes its body.
C14_UnlabelledIgnored ==
    [][/\ \A n \in 1..Len(issues) :
             HelpdeskLabel \notin issues[n].labels /\ pc # "idle"
                 => /\ issues'[n] = issues[n]
                    /\ Len(comments') > Len(comments)
                           => comments'[Len(comments')].issue # n
       /\ Len(sent') > Len(sent)
             => HelpdeskLabel \in events[sent'[Len(sent')].event].issue.labels]_vars

\* C15: a comment that does not mention "@" followed by the synchronizer's
\* own login (compared without regard to case) is never sent, also when the
\* label, author and marker gates all pass: its run is a skip that ends with
\* exit status 0 and transmits no mail.
C15_UnmentionedNeverSent ==
    \A k \in 1..Len(outLog) :
        ~mentions_customer_bot(events[outLog[k].event].comment.body, BotLogin)
            => /\ outLog[k].result = "skipped"
               /\ outLog[k].exit = 0
               /\ MailsOf(outLog[k].event) = {}

\* C16: a comment whose author is an automation (type Bot) is never sent as
\* mail, whatever its body, its mentions and the labels of its issue: every
\* run for it is a skip and no mail belongs to it.
C16_BotCommentNeverSent ==
    \A e \in 1..Len(events) :
        events[e].comment.user_type = "Bot"
            => /\ MailsOf(e) = {}
               /\ \A k \in RunsOf(e) : outLog[k].result = "skipped"

\* C16's case: a run has skipped an automation's comment that passes every
\* other gate (labelled issue, no marker, a mention of the synchronizer).
C16_Witness ==
    \E k \in 1..Len(outLog) :
        LET ev == events[outLog[k].event]
        IN  /\ ev.comment.user_type = "Bot"
            /\ HelpdeskLabel \in ev.issue.labels
            /\ ~HoldsMarker(ev.comment.body)
            /\ mentions_customer_bot(ev.comment.body, BotLogin)
            /\ outLog[k].reason = "Comment author is a bot"
            /\ outLog[k].exit = 0

\* The step is one outbound run.
OutboundStep == Len(outLog') = Len(outLog) + 1

\* The run r of this step failed in transmission: failure, no mail, no write.
SendFailureLeavesTracker(r) ==
    r.reason = "send failed"
        => r.result = "failed" /\ r.exit = 1 /\ issues' = issues /\ sent' = sent

\* The block of the body is textually encode(decode(body)).
Reencodable(body) == Reencoded(body) # <<>> /\ Contains(body, Reencoded(body))

\* C17 as stated: when transmission fails the run reports failure and writes
\* nothing to the tracker; when it succeeds the fresh token is in the
\* conversation's stored token list afterwards and the run reports success.
C17_SentThenTokenStored ==
    [][OutboundStep
          => \E r \in {outLog'[Len(outLog')]} :
                /\ SendFailureLeavesTracker(r)
                /\ r.result = "sent"
                      => \E n \in {events[r.event].issue.number} :
                         \E tok \in {sent'[Len(sent')].message_id},
                            new \in {StoredTokens(issues'[n].body)} :
                               /\ r.exit = 0
                               /\ Len(sent') = Len(sent) + 1
                               /\ InSeq(tok, new)]_vars

\* C17, amended: when transmission fails the run reports failure and writes
\* nothing to the tracker; when it succeeds the run reports success and the
\* append is best-effort: the tracker is left as it is, or only the body of
\* the event's issue changes and its token list becomes the event payload's
\* list with the fresh token at its end; and when no call of the run failed
\* and the payload's block is textually encode(decode(body)), the fresh token
\* is in the stored list afterwards.
C17_SentThenBestEffortAppend ==
    [][OutboundStep
          => \E r \in {outLog'[Len(outLog')]} :
                /\ SendFailureLeavesTracker(r)
                /\ r.result = "sent"
                      => \E n \in {events[r.event].issue.number} :
                         \E tok \in {sent'[Len(sent')].message_id},
                            new \in {StoredTokens(issues'[n].body)} :
                               /\ r.exit = 0
                               /\ Len(sent') = Len(sent) + 1
                               /\ \/ issues' = issues
                                  \/ /\ issues' = [issues EXCEPT
                                                     ![n].body = issues'[n].body]
                                     /\ new = Append(StoredTokens(
                                                        events[r.event].issue.body), tok)
                               /\ \/ InSeq(tok, new)
                                  \/ faults' # faults
                                  \/ ~Reencodable(events[r.event].issue.body)]_vars

\* C17's case: a run has transmitted a mail and the mail's token is the last
\* of the stored list of its conversation.
C17_Witness ==
    \E k \in 1..Len(outLog), m \in 1..Len(sent) :
        LET n == events[outLog[k].event].issue.number
            tokens == StoredTokens(issues[n].body)
        IN  /\ outLog[k].result = "sent" /\ outLog[k].exit = 0
            /\ sent[m].event = outLog[k].event
            /\ tokens # <<>>
            /\ tokens[Len(tokens)] = sent[m].message_id

\* The bodies that hold no metadata block, or a block without customer address.
BodiesWithoutAddress == {BodyNoBlock, BodyNoFromLine, BodyEmptyFrom}

\* C18: an outbound run for an issue whose body holds no metadata block, or
\* whose block holds no customer address, fails (exit status 1, unless a gate
\* skipped the comment before): it transmits no mail to any recipient and
\* makes no write to the tracker.
C18_NoAddressFails ==
    [][OutboundStep
          => \E r \in {outLog'[Len(outLog')]} :
                events[r.event].issue.body \in BodiesWithoutAddress
                    => /\ sent' = sent
                       /\ issues' = issues
                       /\ \/ r.result = "skipped"
                          \/ r.result = "failed" /\ r.exit = 1]_vars

\* C19: every mail an outbound run transmits for a conversation whose stored
\* token list is not empty carries as In-Reply-To the last token of that
\* list, as References the whole list in its stored order, and as message id a
\* token that is not in the list.
C19_ThreadingFromStoredTokens ==
    [][OutboundStep /\ Len(sent') = Len(sent) + 1
          => \E mail \in {sent'[Len(sent')]} :
             \E tokens \in {StoredTokens(issues[events[mail.event].issue.number].body)} :
                tokens # <<>>
                    => /\ mail.in_reply_to = tokens[Len(tokens)]
                       /\ mail.references = tokens
                       /\ ~InSeq(mail.message_id, tokens)]_vars

\* The unit wrote what its message asked for: the comment, or the new issue
\* and, when a project was requested, its place in the project.
UnitWritten(u) == u.commented \/ (u.created # 0 /\ u.reason # "project failed")

\* C20: an inbound unit reports success exactly when its comment or its
\* creation succeeded and, when a project was requested, attaching the new
\* issue to it succeeded too; a failed attachment to the project makes the
\* unit fail, so that its message is not seen at the Mailbox Service (unless
\* a later processing of it succeeded).
C20_SuccessIffWrittenAndGrouped ==
    \A k \in 1..Len(unitLog) :
        /\ unitLog[k].result = "ok" <=> UnitWritten(unitLog[k])
        /\ unitLog[k].reason = "project failed"
              => /\ unitLog[k].result = "false"
                 /\ \/ ~mailbox[unitLog[k].uid].seen
                    \/ \E j \in UnitsOf(unitLog[k].uid) :
                          j > k /\ unitLog[j].result = "ok"

\* The outcome of the last upload of attachment k of the call: an image whose
\* first upload failed is uploaded a second time, as a file.
LastUploadOk(k) ==
    IF call.attachments[k].content_type \in image_types /\ ~call.up[1][k]
    THEN call.up[2][k] ELSE call.up[1][k]

\* C21: for every attachment list and every pattern of upload failures,
\* process_attachments returns a section (the unit goes on) in which each
\* attachment has exactly one entry: an embedded image when it is an image
\* whose upload succeeded, a linked entry when its upload as a file succeeded,
\* and the plain-text fallback entry when its last upload failed.
C21_EachAttachmentOnce ==
    call.fn = "attachments" /\ call.done
        => \A k \in 1..Len(call.attachments) :
              LET att == call.attachments[k]
                  n == call.issue_number
                  img == Occurrences(call.res, ImageEntry(att, n))
                  link == Occurrences(call.res, LinkEntry(att, n))
                  fallback == Occurrences(call.res, FallbackEntry(att))
              IN  /\ img + link + fallback = 1
                  /\ img = 1 <=> att.content_type \in image_types /\ call.up[1][k]
                  /\ fallback = 1 <=> ~LastUploadOk(k)

\* C21's case: one of three attachments failed to upload (an image, on both
\* tries); it has a fallback entry and the other two are embedded and linked.
C21_Witness ==
    /\ call.fn = "attachments" /\ call.done
    /\ call.attachments = <<Picture, Report, Photo>>
    /\ call.up[1] = <<TRUE, TRUE, FALSE>> /\ call.up[2] = <<TRUE, TRUE, FALSE>>
    /\ Occurrences(call.res, ImageEntry(Picture, 7)) = 1
    /\ Occurrences(call.res, LinkEntry(Report, 7)) = 1
    /\ Occurrences(call.res, FallbackEntry(Photo)) = 1

\* s without the reply and forward prefixes it starts with, however many.
RECURSIVE DropPrefixes(_)
DropPrefixes(s) ==
    IF Len(s) > 0 /\ s[1] \in ReplyPrefixes
    THEN DropPrefixes(SubSeq(s, WsEnd(s, 2), Len(s)))
    ELSE s

\* C22: for every issue number n and subject s, format_issue_title(n, s) is
\* the zero-padded tag of n, a space, and s without its tags and without the
\* reply and forward prefixes it starts with (in any letter case, also when
\* repeated as in "Re: Re: x"), stripped.
C22_TitleStripsTagsAndPrefixes ==
    call.fn = "title" /\ call.done
        => call.res.title = <<"[GH-">> \o Pad4(call.issue_number) \o <<"]", SP>>
                               \o Strip(DropPrefixes(StripTagsFrom(call.subject, 1)))

\* C23: for every issue number n >= 1 and every subject s, the tag extracted
\* from format_issue_title(n, s) is n, and so is the tag extracted from
\* "Re: " followed by that title; a subject without bracketed tag yields None.
C23_TitleTagRoundTrip ==
    call.fn = "title" /\ call.done
        => /\ call.issue_number >= 1
                 => call.res.tag = Some(call.issue_number)
                    /\ call.res.reply_tag = Some(call.issue_number)
           /\ ~InSeq("[GH-", call.subject) => call.res.subject_tag = None

\* C23's case: the title of a subject that keeps a tag of its own behind the
\* new one; the tag extracted is the new one.
C23_Witness ==
    /\ call.fn = "title" /\ call.done
    /\ call.issue_number = 7
    /\ call.res.title = <<"[GH-", "0", "0", "0", "7", "]", SP, "[GH-", "2", "]">>
    /\ call.res.tag = Some(7) /\ call.res.reply_tag = Some(7)
    /\ call.res.subject_tag = Some(1)

\* C24: when the number the tracker assigned to a new issue differs from the
\* number predicted before creation, create_new_issue issues one title update,
\* to format_issue_title(assigned number, subject); when the two are equal it
\* issues none.  A failed title update leaves the title of the predicted
\* number and does not fail the unit.
C24_TitleCorrectedOnMismatch ==
    \A k \in 1..Len(unitLog) :
        LET u == unitLog[k]
            n == u.created
            subject == mailbox[u.uid].msg.subject
        IN  n # 0
               => /\ u.retitle = "none" <=> u.predicted = n
                  /\ u.retitle \in {"none", "ok"}
                        => issues[n].title = format_issue_title(n, subject)
                  /\ u.retitle = "failed"
                        => /\ issues[n].title = format_issue_title(u.predicted, subject)
                           /\ u.result = "ok" <=> u.reason # "project failed"

\* C24's case: units that created an issue whose number was predicted wrongly:
\* one whose title update succeeded, and one whose title update failed and
\* that reported success.
C24_Witness ==
    \E j, k \in 1..Len(unitLog) :
        /\ unitLog[j].created = 2 /\ unitLog[j].predicted = 1
        /\ unitLog[j].retitle = "failed" /\ unitLog[j].result = "ok"
        /\ issues[2].title # format_issue_title(2, mailbox[unitLog[j].uid].msg.subject)
        /\ unitLog[k].created = 1
        /\ unitLog[k].retitle = "none"

\* C25: when handle_reply has read the issue of its message as closed, it
\* issues a reopen before it adds the comment, and the reopen changes the
\* state of that issue only: the body of every issue, and with it the metadata
\* block, is the same right after the reopen as before it.
C25_ReopenBeforeCommentKeepsBody ==
    [][/\ pc = "get" /\ pc' \in {"reopen", "comment"}
             => (pc' = "reopen" <=> Get(unit'.issue).state = "closed")
       /\ pc = "reopen" /\ pc' # pc
             => /\ pc' = "comment"
                /\ comments' = comments
                /\ Len(reopenLog') = Len(reopenLog) + 1
                /\ reopenLog'[Len(reopenLog')].issue = unit.target
                /\ \A n \in 1..Len(issues) :
                      /\ issues'[n].body = issues[n].body
                      /\ issues'[n] = [issues[n] EXCEPT !.state = issues'[n].state]
                      /\ n # unit.target => issues'[n] = issues[n]
                /\ issues'[unit.target].state \in {"open", issues[unit.target].state}]_vars

\* C25's case: a closed conversation with a metadata block was reopened for a
\* message and the comment is about to be added.
C25_Witness ==
    /\ pc = "comment"
    /\ reopenLog # <<>>
    /\ reopenLog[Len(reopenLog)].uid = unit.uid
    /\ reopenLog[Len(reopenLog)].reopened
    /\ Get(unit.issue).state = "closed"
    /\ issues[unit.target].state = "open"
    /\ IdentityOf(issues[unit.target].body) # None
    /\ issues[unit.target].body = Get(unit.issue).body

\* nb is body with its block replaced by the block of the same thread id and
\* address and of the token list with tok appended, every atom before and
\* behind the block being the same; or nb is body, when the block of body is
\* not the text encode(decode(body)).
OnlyBlockReplaced(body, nb, tok) ==
    IF ~Reencodable(body) THEN nb = body
    ELSE LET sp == BlockSpan(body, Min(BlockMatches(body)))
             behind == Len(body) - sp.end
             md == Get(parse_metadata_from_issue_body(body))
         IN  /\ Len(nb) >= sp.start - 1 + behind
             /\ SubSeq(nb, 1, sp.start - 1) = SubSeq(body, 1, sp.start - 1)
             /\ SubSeq(nb, Len(nb) - behind + 1, Len(nb)) = SubSeq(body, sp.end + 1, Len(body))
             /\ SubSeq(nb, sp.start, Len(nb) - behind)
                   = format_metadata_comment(Get(md.thread_id), Get(md.from),
                                             Append(md.message_ids, tok))

\* C26: the body a metadata append passes to the tracker is the body it was
\* given with the old block replaced by the new block: every atom outside the
\* block is unchanged, in the inbound and in the outbound update.
C26_AppendChangesOnlyBlock ==
    call.fn = "append" /\ call.done
        => /\ IsSome(call.res.inbound)
                 => OnlyBlockReplaced(call.body, Get(call.res.inbound), call.new_message_id)
           /\ IsSome(call.res.outbound)
                 => OnlyBlockReplaced(call.body, Get(call.res.outbound), call.new_message_id)

\* C26's case: both updates have replaced the block of a body that holds text
\* before and behind it.
C26_Witness ==
    /\ call.fn = "append" /\ call.done
    /\ call.body = Surrounded(format_metadata_comment(T1, <<"jane@x">>, <<T1, T2>>))
                      \o AgentNote
    /\ call.new_message_id = T3
    /\ IsSome(call.res.inbound) /\ IsSome(call.res.outbound)
    /\ StoredTokens(Get(call.res.inbound)) = <<T1, T2, T3>>
    /\ Get(call.res.outbound) = Get(call.res.inbound)
    /\ Get(call.res.inbound) # call.body

\* Run i makes its update_issue_metadata step.
OverlapWrites(i) ==
    /\ call.fn = "overlap"
    /\ call.runs[i].phase = "read" /\ call'.runs[i].phase = "done"

\* The block update_issue_metadata looks for, made from the body it read, is
\* not in the body the tracker stores.
OldBlockGone(read, stored) ==
    \/ ~IsSome(parse_metadata_from_issue_body(read))
    \/ Reencoded(read) = <<>>
    \/ ~Contains(stored, Reencoded(read))

\* C27: when a metadata append cannot decode the body, or the old block is
\* not verbatim in the conversation's body (for instance because another run
\* changed the body after this run read it), the append is a no-op: the body
\* stored at the tracker after the step is the body stored before it.
C27_AppendNoOpWhenBlockGone ==
    [][\A i \in 1..MaxOverlap :
          OverlapWrites(i) /\ OldBlockGone(Get(call.runs[i].issue).body, issues[1].body)
              => issues'[1].body = issues[1].body]_vars

\* C28: with overlapping runs on one conversation, in every interleaving the
\* stored body holds exactly one decodable block, with the thread id and the
\* address it had at first, and a token list made only of the tokens stored
\* at first and of the tokens of the runs.
C28_OverlapNeverCorrupts ==
    call.fn = "overlap"
        => \E body \in {issues[1].body} :
             /\ Cardinality(BlockMatches(body)) = 1
             /\ Occurrences(body, MetaOpen) = 1
             /\ IsSome(parse_metadata_from_issue_body(body))
             /\ IdentityOf(body) = IdentityOf(call.first)
             /\ \A k \in 1..Len(StoredTokens(body)) :
                   \/ InSeq(StoredTokens(body)[k], StoredTokens(call.first))
                   \/ \E i \in 1..MaxOverlap :
                         /\ call.runs[i].phase = "done"
                         /\ StoredTokens(body)[k] = call.runs[i].new_message_id

\* C28's case: two inbound runs read the same body, then both wrote; the
\* body holds the token of the run that wrote last.
C28_Witness ==
    /\ call.fn = "overlap" /\ call.first = BodyOneToken
    /\ \A i \in 1..2 : /\ call.runs[i].kind = "inbound"
                       /\ call.runs[i].phase = "done" /\ call.runs[i].wrote
                       /\ Get(call.runs[i].issue).body = BodyOneToken
    /\ call.runs[1].new_message_id = T3 /\ call.runs[2].new_message_id = T4
    /\ StoredTokens(issues[1].body) = <<T1, T4>>

\* C29: when the comment on a resolved conversation was added, the inbound
\* unit reports success and its message is seen at the Mailbox Service, also
\* when the metadata append found no block to extend, did not find the old
\* block in the body, or its write failed.
C29_AppendNeverFailsUnit ==
    \A k \in 1..Len(unitLog) :
        unitLog[k].commented
            => /\ unitLog[k].append \in {"skipped", "same", "failed", "written"}
               /\ unitLog[k].result = "ok"
               /\ mailbox[unitLog[k].uid].seen

\* C29's case: a unit added its comment, the write of its append failed, and
\* the unit reported success.
C29_Witness ==
    \E k \in 1..Len(unitLog) :
        /\ unitLog[k].commented /\ unitLog[k].append = "failed"
        /\ unitLog[k].result = "ok"
        /\ mailbox[unitLog[k].uid].seen
        /\ ~InSeq(mailbox[unitLog[k].uid].msg.message_id,
                  StoredTokens(issues[unitLog[k].target].body))

\* C30: decoding a body whose block has a token list that is not valid JSON
\* returns the thread id and the address of the block with an empty token
\* sequence; it returns neither absent nor an error.
C30_MalformedListDecodesEmpty ==
    call.fn = "decode" /\ call.done
        => /\ ~call.res.raised
           /\ call.res.value = Some([thread_id |-> Some(call.thread_id),
                                     from |-> Some(call.from_email),
                                     message_ids |-> <<>>])

\* C31: when an inbound reply is processed successfully by a run whose read
\* of the conversation is still what the tracker stores (no other write in
\* between) and whose own write did not fail, the message's token is in the
\* conversation's stored token list afterwards.
C31_ReplyTokenStored ==
    [][(/\ pc = "update" /\ pc' # pc
        /\ issues[unit.target].body = Get(unit.issue).body
        /\ unitLog'[Len(unitLog')].result = "ok"
        /\ unitLog'[Len(unitLog')].append # "failed")
           => InSeq(CurrentMsg.message_id, StoredTokens(issues'[unit.target].body))]_vars

\* C32: no content of an inbound mail adds a metadata block to the body of the
\* item created from it or changes what the body decodes to: the body holds
\* one block and decodes to the thread id, the address and the token list the
\* synchronizer encoded, and the transformed mail text holds no "<" and no ">".
C32_MailContentCannotForgeBlock ==
    call.fn = "create" /\ call.done
        => /\ \A k \in 1..Len(call.res.clean_body) : call.res.clean_body[k] \notin {"<", ">"}
           /\ Occurrences(call.res.body, MetaOpen) = 1
           /\ call.res.decoded
                 = Some([thread_id |-> Some(call.msg.message_id),
                         from |-> Some(parse_email_address(call.msg.from_addr)),
                         message_ids |-> <<call.msg.message_id>>])

\* The units that handled an answer whose subject is "Re: " and the subject
\* of the notification sent[1] resolved to the conversation the notification
\* was sent for.
AnswersResolveToSender ==
    \A j \in 1..Len(unitLog) :
        mailbox[unitLog[j].uid].msg.subject = <<"Re:", SP>> \o sent[1].subject
            => /\ unitLog[j].via \in {"tag", "thread"}
               /\ unitLog[j].target = events[sent[1].event].issue.number

C35_UnknownTagFailsUnit ==
    \A j \in 1..Len(unitLog) :
        \E tag \in {extract_gh_number_from_subject(mailbox[unitLog[j].uid].msg.subject)} :
            IsSome(tag) /\ Get(tag) \notin IssueNumbers
                => /\ unitLog[j].result # "ok"
                   /\ ~unitLog[j].commented
                   /\ unitLog[j].created = 0
                   /\ ~unitLog[j].searched
                   /\ ~mailbox[unitLog[j].uid].seen

\* The items of the search result of the call whose body holds a block with
\* one of the tokens of the call's message.
Holders ==
    {k \in 1..Len(call.found) :
        /\ call.found[k] # None
        /\ \E t \in {call.msg.in_reply_to} \cup {call.msg.references[r] :
                                                  r \in 1..Len(call.msg.references)} :
              t # <<>> /\ InSeq(t, StoredTokens(Get(call.found[k])))}

\* C36: during token matching an open conversation whose body has no block,
\* is empty or is absent is skipped: the message resolves to the first
\* conversation of the search result that holds one of its tokens, or to
\* none (a new conversation) when no conversation holds one.
C36_BlocklessIssuesSkipped ==
    call.fn = "find" /\ call.done
        => /\ ~call.res.raised
           /\ call.res.place = IF Holders = {} THEN 0 ELSE Min(Holders)

\* The place of token t in the list s (the first one).
FirstAt(t, s) == Min({k \in 1..Len(s) : s[k] = t})

\* The units of a run are logged in the order the mailbox listed the
\* messages (ascending place in the mailbox), and while the run is in its
\* loop the units before the current index are exactly the ones logged:
\* a unit starts only after the one before it ended.
BatchInOrder ==
    /\ \A i, j \in 1..Len(unitLog) :
          i < j /\ unitLog[i].run = unitLog[j].run => unitLog[i].uid < unitLog[j].uid
    /\ pc \in {"resolve", "get", "reopen", "comment", "update", "create"}
          => /\ idx \in 1..Len(batch)
             /\ Cardinality(UnitsOfRun(runs)) = idx - 1
             /\ \A k \in 1..(idx - 1) :
                   \E l \in UnitsOfRun(runs) : unitLog[l].uid = batch[k]
    /\ pc = "exit" /\ runs > 0 /\ exit_status = "none"
          => Cardinality(UnitsOfRun(runs)) = Len(batch)

\* Two units of one run, i before j, that succeeded on the same conversation.
SameConversation(i, j) ==
    /\ i < j
    /\ unitLog[i].run = unitLog[j].run
    /\ unitLog[i].via \in {"tag", "thread"}
    /\ unitLog[j].via \in {"tag", "thread"}
    /\ unitLog[i].target = unitLog[j].target
    /\ unitLog[i].result = "ok"
    /\ unitLog[j].result = "ok"

\* The tokens of units i and j are both stored in the conversation, i's
\* before j's.
StoredInOrder(i, j) ==
    \E ids \in {StoredTokens(issues[unitLog[i].target].body)},
       ti \in {mailbox[unitLog[i].uid].msg.message_id},
       tj \in {mailbox[unitLog[j].uid].msg.message_id} :
        /\ InSeq(ti, ids)
        /\ InSeq(tj, ids)
        /\ FirstAt(ti, ids) < FirstAt(tj, ids)

\* C37 (as stated): the messages of a batch are processed one after another
\* in the order the mailbox listed them, and when two of them resolve to the
\* same conversation both tokens are in its list afterwards, in that order.
C37_BatchTokensInOrder ==
    /\ BatchInOrder
    /\ \A i, j \in 1..Len(unitLog) : SameConversation(i, j) => StoredInOrder(i, j)

\* C37 (amended): the messages of a batch are processed one after another in
\* the order the mailbox listed them; when two of them resolve to the same
\* conversation and the append of each was written, both tokens are in its
\* list afterwards, in that order.
C37_BatchWrittenTokensInOrder ==
    /\ BatchInOrder
    /\ \A i, j \in 1..Len(unitLog) :
          SameConversation(i, j) /\ unitLog[i].append = "written"
                                 /\ unitLog[j].append = "written"
              => StoredInOrder(i, j)

\* Both messages of a batch were answers to conversation 1, both appends
\* were written, and the run has ended.
C37_Witness ==
    /\ pc = "idle" /\ runs = 1
    /\ Len(unitLog) = 2
    /\ SameConversation(1, 2)
    /\ unitLog[1].append = "written" /\ unitLog[2].append = "written"
    /\ StoredInOrder(1, 2)

\* The name is `issue-` followed by a numeral of n (digits, which int() reads
\* with leading zeros and a sign).
Denotes(name, n) ==
    /\ Len(name) >= 3
    /\ name[1] = "issue" /\ name[2] = "-"
    /\ \E ds \in {IF name[3] = "+" THEN SubSeq(name, 4, Len(name))
                  ELSE SubSeq(name, 3, Len(name))} :
          /\ Len(ds) > 0
          /\ \A k \in 1..Len(ds) : IsDigit(ds[k])
          /\ ParseInt(ds) = n

\* Issue n carries the helpdesk label, is closed, and was closed more than
\* DAYS_OLD days ago.
OldClosedHelpdesk(n) ==
    /\ n \in DOMAIN call.tracker
    /\ HelpdeskLabel \in call.tracker[n].labels
    /\ call.tracker[n].state = "closed"
    /\ call.tracker[n].closed_at # None
    /\ Now - Get(call.tracker[n].closed_at) > call.days_old * DayLength

\* The entries of attachments/ before the run.
ListedNames == {call.listing[i].name : i \in 1..Len(call.listing)}

====
